---- MODULE Spec2Model ----
(***************************************************************************)
(* Financial-Transaction-Extractor: the extraction / classification /      *)
(* normalisation / deduplication pipeline of gmail_to_sheets.py, as a      *)
(* state machine of one run of process_gmail_account, the HTTP-triggered   *)
(* run process_emails of api/process.py, the notifier of                   *)
(* telegram_notifier.py, plus the pure functions is_duplicate,             *)
(* extract_email_body and the amount normalisation of                      *)
(* parse_email_with_gemini under their own specifications.                 *)
(*                                                                         *)
(* Python values are tagged records [t, s, n]:                             *)
(*   None   -> t = "null"                                                  *)
(*   str    -> t = "str",   s = the characters                             *)
(*   int    -> t = "int",   n = the integer                                *)
(*   float  -> t = "float", s = the sign (<<>> or <<"-">>), n = magnitude  *)
(*             (whole-valued floats; the sign is kept apart so that -0.0   *)
(*             and 0.0 differ, as they do under str())                     *)
(* Strings are sequences of one-character strings.                         *)
(***************************************************************************)
EXTENDS Integers, Sequences, FiniteSets, TLC

VARIABLES
    mode,                   \* which specification drives the state: "run", "batch",
                            \* "runs", "http", "http_batch", "hook", "dup", "norm",
                            \* "extract", "fence"
    request,                \* the body of the POST the webhook received, if any
    run_no,                 \* the number of runs started on this mailbox and sheet
    pc,                     \* position in process_gmail_account / process_emails
    mailbox,                \* mail backend: the unread messages matching the query
    handled,                \* mail backend: ids labelled Processed-Financial and read
    sheet,                  \* store backend: the rows of Sheet1
    TELEGRAM_AVAILABLE,     \* module flag set at import time
    TELEGRAM_ENABLED,       \* telegram_notifier: the feature flag
    TELEGRAM_BOT_TOKEN,     \* telegram_notifier: TRUE when the token is a non-empty string
    TELEGRAM_CHAT_IDS,      \* telegram_notifier: the number of configured chat ids
    emails,                 \* local: the list get_emails returned
    existing_data,          \* local: the snapshot get_existing_data returned
    all_data_rows,          \* local: header row + staged rows
    duplicate_count,        \* local
    processed_transactions, \* local
    idx,                    \* local: position of the for loop (1-based)
    email_body,             \* local: result of extract_email_body for emails[idx]
    parsed_data,            \* local: result of parse_email_with_gemini for emails[idx]
    processed_count,        \* local of process_emails
    returned,               \* what the caller of the run observes
    log,                    \* history: one record per step of the run, in order
    dupIn,                  \* is_duplicate under test: its two arguments
    dupOut,                 \* is_duplicate under test: its result
    normIn,                 \* amount normalisation under test: the parsed JSON object
    normOut,                \* amount normalisation under test: the result
    normAgain,              \* amount normalisation under test: the result fed back in
    extractIn,              \* extract_email_body under test: the payload
    extractOut,             \* extract_email_body under test: the result
    fenceIn,                \* fence stripping under test: the classifier's response text
    fenceOut                \* fence stripping under test: the result

notifierVars == <<TELEGRAM_ENABLED, TELEGRAM_BOT_TOKEN, TELEGRAM_CHAT_IDS>>

callerVars == <<request, run_no>>

fenceVars == <<fenceIn, fenceOut>>

pureVars == <<dupIn, dupOut, normIn, normOut, normAgain, extractIn, extractOut, fenceVars>>

runVars == <<pc, mailbox, handled, sheet, TELEGRAM_AVAILABLE, notifierVars, callerVars, emails,
             existing_data, all_data_rows, duplicate_count, processed_transactions,
             idx, email_body, parsed_data, processed_count, returned, log>>

vars == <<mode, runVars, pureVars>>

----------------------------------------------------------------------------
(* Bounds of the model *)

\* largest number of candidate messages in the mailbox
MaxEmails == 2

\* largest number of existing records handed to is_duplicate under test
MaxExisting == 2

\* largest amount magnitude the classifier reports in the normalisation test
MaxAmount == 3

\* largest number of candidate messages in a run with few kinds of input
MaxBatch == 6

\* largest number of parts at the top level of a payload given to the extractor
MaxParts == 3

\* largest number of tags and text runs in an HTML body given to the extractor
MaxTokens == 3

\* largest number of chunks in a classifier response given to the parser
MaxChunks == 4

\* largest number of runs of process_gmail_account on one mailbox and sheet
MaxRuns == 2

----------------------------------------------------------------------------
(* Python values *)

Null == [t |-> "null", s |-> <<>>, n |-> 0]

StrV(chars) == [t |-> "str", s |-> chars, n |-> 0]

IntV(k) == [t |-> "int", s |-> <<>>, n |-> k]

FloatV(sign, mag) == [t |-> "float", s |-> sign, n |-> mag]

Minus == <<"-">>

Abs(k) == IF k < 0 THEN -k ELSE k

DigitChars == <<"0", "1", "2", "3", "4", "5", "6", "7", "8", "9">>

RECURSIVE NatStr(_)
NatStr(k) ==
    IF k < 10 THEN <<DigitChars[k + 1]>>
    ELSE NatStr(k \div 10) \o <<DigitChars[(k % 10) + 1]>>

\* str(): None -> "None", a str is itself, an int in decimal, a whole float
\* with a trailing ".0" (and "-0.0" for the negative zero)
Str(v) ==
    CASE v.t = "null"  -> <<"N", "o", "n", "e">>
      [] v.t = "str"   -> v.s
      [] v.t = "int"   -> (IF v.n < 0 THEN Minus ELSE <<>>) \o NatStr(Abs(v.n))
      [] v.t = "float" -> v.s \o NatStr(v.n) \o <<".", "0">>

UpperChars == <<"A", "B", "C", "D", "E", "F", "G", "H", "I", "J", "K", "L", "M",
                "N", "O", "P", "Q", "R", "S", "T", "U", "V", "W", "X", "Y", "Z">>

LowerChars == <<"a", "b", "c", "d", "e", "f", "g", "h", "i", "j", "k", "l", "m",
                "n", "o", "p", "q", "r", "s", "t", "u", "v", "w", "x", "y", "z">>

LowerChar(c) ==
    IF \E k \in 1..26 : UpperChars[k] = c
    THEN LowerChars[CHOOSE k \in 1..26 : UpperChars[k] = c]
    ELSE c

\* str.lower()
Lower(chars) == [k \in 1..Len(chars) |-> LowerChar(chars[k])]

\* dict.get(key, default): the default only when the key is absent
Get(d, key, default) == IF key \in DOMAIN d THEN d[key] ELSE default

----------------------------------------------------------------------------
(* Content extractor: extract_email_body *)

\* A decoded body is a sequence of tokens: markup tags and runs of text.
Tag(name) == [tag |-> TRUE, s |-> name]

Txt(chars) == [tag |-> FALSE, s |-> chars]

\* a run of text that ends in an unfinished character reference ("R&D"):
\* HTMLParser.feed keeps such a run in its buffer when nothing follows it,
\* and close() is never called
Amp(chars) == [tag |-> FALSE, s |-> chars, amp |-> TRUE]

EndsInReference(tok) == "amp" \in DOMAIN tok

\* body.data of a part: absent or '', base64 of some content, or a value on
\* which base64.urlsafe_b64decode(..).decode('utf-8') raises
NoData == [k |-> "empty", txt |-> <<>>]

Enc(content) == [k |-> "b64", txt |-> content]

BadEnc == [k |-> "bad", txt |-> <<>>]

\* a leaf part / a payload without a 'parts' key
Leaf(mime, data) == [mimeType |-> mime, hasParts |-> FALSE, parts |-> <<>>, data |-> data]

\* a part / payload with a 'parts' key
Multi(mime, parts) == [mimeType |-> mime, hasParts |-> TRUE, parts |-> parts, data |-> NoData]

\* results of the extractor: a string, None, or an exception leaving the call
ResText(content) == [k |-> "text", txt |-> content]

ResNone == [k |-> "none", txt |-> <<>>]

ResRaise == [k |-> "raise", txt |-> <<>>]

\* a check that only asks for "not an exception"
TruthyNoneToo(res) == res.k # "raise"

\* Python truthiness of the extractor's result (a non-empty string)
Truthy(res) == res.k = "text" /\ res.txt # <<>>

\* base64.urlsafe_b64decode(data).decode('utf-8')
DecodePlain(data) == IF data.k = "bad" THEN ResRaise ELSE ResText(data.txt)

RECURSIVE JoinSpace(_)
JoinSpace(pieces) ==
    IF Len(pieces) = 0 THEN <<>>
    ELSE IF Len(pieces) = 1 THEN <<pieces[1]>>
    ELSE <<pieces[1], Txt(" ")>> \o JoinSpace(Tail(pieces))

\* the text runs feed() hands to handle_data: every run that a tag
\* follows, and the last run unless it ends in an unfinished reference
Fed(content) ==
    IF content # <<>> /\ EndsInReference(content[Len(content)])
    THEN SubSeq(content, 1, Len(content) - 1)
    ELSE content

\* a parser that hands the markup through with the text
HTMLTextExtractorKeepsTags(content) == JoinSpace(Fed(content))

\* HTMLTextExtractor: handle_data collects the text runs, get_text joins
\* them with one space
HTMLTextExtractor(content) ==
    JoinSpace(SelectSeq(Fed(content), LAMBDA tok : ~tok.tag))

DecodeHtml(data) ==
    IF data.k = "bad" THEN ResRaise ELSE ResText(HTMLTextExtractor(data.txt))

RECURSIVE extract_email_body(_), ExtractParts(_, _)

\* a loop that gives up at the first container part without text
RECURSIVE ExtractPartsStopsAtEmptyContainer(_, _)
ExtractPartsStopsAtEmptyContainer(parts, k) ==
    IF k > Len(parts) THEN ResNone
    ELSE LET part == parts[k] IN
         IF part.mimeType = "text/plain"
         THEN IF part.data.k # "empty" THEN DecodePlain(part.data)
              ELSE ExtractPartsStopsAtEmptyContainer(parts, k + 1)
         ELSE IF part.mimeType = "text/html"
         THEN IF part.data.k # "empty" THEN DecodeHtml(part.data)
              ELSE ExtractPartsStopsAtEmptyContainer(parts, k + 1)
         ELSE IF part.hasParts
         THEN extract_email_body(part)
         ELSE ExtractPartsStopsAtEmptyContainer(parts, k + 1)

\* the for loop over message_payload['parts'], from position k on
ExtractParts(parts, k) ==
    IF k > Len(parts) THEN ResNone
    ELSE LET part == parts[k] IN
         IF part.mimeType = "text/plain"
         THEN IF part.data.k # "empty" THEN DecodePlain(part.data)
              ELSE ExtractParts(parts, k + 1)
         ELSE IF part.mimeType = "text/html"
         THEN IF part.data.k # "empty" THEN DecodeHtml(part.data)
              ELSE ExtractParts(parts, k + 1)
         ELSE IF part.hasParts
         THEN LET body == extract_email_body(part) IN
              IF body.k = "raise" THEN ResRaise
              ELSE IF Truthy(body) THEN body
              ELSE ExtractParts(parts, k + 1)
         ELSE ExtractParts(parts, k + 1)

extract_email_body(message_payload) ==
    IF message_payload.hasParts
    THEN ExtractParts(message_payload.parts, 1)
    ELSE IF message_payload.data.k # "empty"
         THEN IF message_payload.mimeType = "text/html"
              THEN DecodeHtml(message_payload.data)
              ELSE DecodePlain(message_payload.data)
         ELSE ResNone

----------------------------------------------------------------------------
(* Classifier adapter and normaliser: parse_email_with_gemini *)

\* A classifier response, as generate_content / response.text / json.loads
\* leave it: the call raised, the text is not JSON, the JSON value is not an
\* object, or it is an object (a function from its keys to Python values).
RespRaise == [k |-> "raise", obj |-> <<>>]

RespInvalid == [k |-> "invalid", obj |-> <<>>]

RespNonObject == [k |-> "nonobject", obj |-> <<>>]

RespObject(obj) == [k |-> "object", obj |-> obj]

\* what parse_email_with_gemini returns: None or the dict
ParsedNone == [ok |-> FALSE, data |-> <<>>]

Parsed(obj) == [ok |-> TRUE, data |-> obj]

\* no check of the result at all
ParsedTruthyAlways(pd) == TRUE

\* Python truthiness of that result: a dict with at least one key
ParsedTruthy(pd) == pd.ok /\ DOMAIN pd.data # {}

IsDigit(c) == \E k \in 1..10 : DigitChars[k] = c

DigitVal(c) == (CHOOSE k \in 1..10 : DigitChars[k] = c) - 1

RECURSIVE DigitsVal(_)
DigitsVal(chars) ==
    IF Len(chars) = 0 THEN 0
    ELSE 10 * DigitsVal(SubSeq(chars, 1, Len(chars) - 1)) + DigitVal(chars[Len(chars)])

AllDigits(chars) == Len(chars) > 0 /\ \A k \in 1..Len(chars) : IsDigit(chars[k])

\* float(x) for the values json.loads produces here: [ok, v]; a str must be
\* an optionally signed run of digits, anything else raises ValueError, and
\* None raises TypeError
ToFloat(v) ==
    CASE v.t = "int"   -> [ok |-> TRUE, v |-> FloatV(IF v.n < 0 THEN Minus ELSE <<>>, Abs(v.n))]
      [] v.t = "float" -> [ok |-> TRUE, v |-> v]
      [] v.t = "str"   ->
           IF AllDigits(v.s)
           THEN [ok |-> TRUE, v |-> FloatV(<<>>, DigitsVal(v.s))]
           ELSE IF Len(v.s) > 1 /\ v.s[1] = "-" /\ AllDigits(Tail(v.s))
           THEN [ok |-> TRUE, v |-> FloatV(Minus, DigitsVal(Tail(v.s)))]
           ELSE [ok |-> FALSE, v |-> Null]
      [] OTHER         -> [ok |-> FALSE, v |-> Null]

\* an abs() that leaves the sign
FloatAbsKeepsSign(f) == f

\* abs() and unary minus on a float
FloatAbs(f) == FloatV(<<>>, f.n)

FloatNeg(f) == FloatV(IF f.s = Minus THEN <<>> ELSE Minus, f.n)

EXPENSE == StrV(<<"e", "x", "p", "e", "n", "s", "e">>)

INCOME == StrV(<<"i", "n", "c", "o", "m", "e">>)

\* a normalisation that negates for an expense without taking abs() first
NormalizeAmountNoAbs(obj) ==
    IF Get(obj, "amount", Null) # Null
    THEN LET f == ToFloat(obj["amount"]) IN
         IF ~f.ok THEN ParsedNone
         ELSE LET signed == IF Get(obj, "transaction_type", Null) = EXPENSE
                            THEN FloatNeg(f.v)
                            ELSE f.v
              IN Parsed([key \in DOMAIN obj |->
                            IF key = "amount" THEN signed ELSE obj[key]])
    ELSE Parsed(obj)

\* lines 301-314: the amount's sign follows transaction_type
NormalizeAmount(obj) ==
    IF Get(obj, "amount", Null) # Null
    THEN LET f == ToFloat(obj["amount"]) IN
         IF ~f.ok THEN ParsedNone
         ELSE LET amount == FloatAbs(f.v)
                  signed == IF Get(obj, "transaction_type", Null) = EXPENSE
                            THEN FloatNeg(amount)
                            ELSE FloatAbs(amount)
              IN Parsed([key \in DOMAIN obj |->
                            IF key = "amount" THEN signed ELSE obj[key]])
    ELSE Parsed(obj)

\* the whole function, given the response the classifier gives for the prompt
parse_email_with_gemini(email_text, response) ==
    IF ~Truthy(email_text) THEN ParsedNone
    ELSE IF response.k # "object" THEN ParsedNone
    ELSE NormalizeAmount(response.obj)

\* The text of a classifier response, in chunks: a run of three backticks,
\* the word json, white space, the text of a JSON object, the text of a JSON
\* value that is no object, and prose. No chunk but the first holds a
\* backtick, and none but the second starts with the word json.
Fence == [k |-> "fence", obj |-> <<>>]

JsonWord == [k |-> "word", obj |-> <<>>]

Blank == [k |-> "blank", obj |-> <<>>]

JsonText(obj) == [k |-> "json", obj |-> obj]

ScalarText == [k |-> "scalar", obj |-> <<>>]

Prose == [k |-> "prose", obj |-> <<>>]

\* "```json" in text, "```" in text
TaggedFenceAt(text, i) == i < Len(text) /\ text[i] = Fence /\ text[i + 1] = JsonWord

HasTaggedFence(text) == \E i \in 1..Len(text) : TaggedFenceAt(text, i)

HasFence(text) == \E i \in 1..Len(text) : text[i] = Fence

\* text.split("```json")[1] when the separator occurs
AfterTaggedFence(text) ==
    LET i == CHOOSE j \in 1..Len(text) :
                 TaggedFenceAt(text, j) /\ \A h \in 1..(j - 1) : ~TaggedFenceAt(text, h)
    IN SubSeq(text, i + 2, Len(text))

\* text.split("```")[1] when the separator occurs
AfterFence(text) ==
    LET i == CHOOSE j \in 1..Len(text) :
                 text[j] = Fence /\ \A h \in 1..(j - 1) : text[h] # Fence
    IN SubSeq(text, i + 1, Len(text))

\* text.split("```")[0]
BeforeFence(text) ==
    IF HasFence(text)
    THEN LET i == CHOOSE j \in 1..Len(text) :
                      text[j] = Fence /\ \A h \in 1..(j - 1) : text[h] # Fence
         IN SubSeq(text, 1, i - 1)
    ELSE text

RECURSIVE strip(_)
\* str.strip(): white space off both ends
strip(text) ==
    IF text = <<>> THEN text
    ELSE IF text[1] = Blank THEN strip(Tail(text))
    ELSE IF text[Len(text)] = Blank THEN strip(SubSeq(text, 1, Len(text) - 1))
    ELSE text

\* lines 291-295: the cleaning of the response text
StripFences(response_text) ==
    IF HasTaggedFence(response_text)
    THEN strip(BeforeFence(AfterTaggedFence(response_text)))
    ELSE IF HasFence(response_text)
    THEN strip(BeforeFence(AfterFence(response_text)))
    ELSE response_text

\* line 298: json.loads accepts one JSON value with white space around it
json_loads(text) ==
    LET value == strip(text) IN
    IF Len(value) = 1 /\ value[1].k = "json" THEN RespObject(value[1].obj)
    ELSE IF Len(value) = 1 /\ value[1] = ScalarText THEN RespNonObject
    ELSE RespInvalid

\* lines 288-314, given the text of the response
ParseResponseText(email_text, response_text) ==
    parse_email_with_gemini(email_text, json_loads(StripFences(response_text)))

----------------------------------------------------------------------------
(* Deduplication engine: is_duplicate *)

key_fields == <<"date", "amount", "category", "description">>

EmptyStr == StrV(<<>>)

\* the comparison without .lower()
RECURSIVE FieldsMatchCaseSensitive(_, _, _)
FieldsMatchCaseSensitive(new_entry, existing, f) ==
    IF f > Len(key_fields) THEN TRUE
    ELSE LET new_val == Str(Get(new_entry, key_fields[f], EmptyStr))
             existing_val == Str(Get(existing, key_fields[f], EmptyStr))
         IN IF new_val # existing_val THEN FALSE
            ELSE FieldsMatchCaseSensitive(new_entry, existing, f + 1)

\* the inner loop over key_fields, from position f on: match stays True
\* only if no field differs
RECURSIVE FieldsMatch(_, _, _)
FieldsMatch(new_entry, existing, f) ==
    IF f > Len(key_fields) THEN TRUE
    ELSE LET new_val == Lower(Str(Get(new_entry, key_fields[f], EmptyStr)))
             existing_val == Lower(Str(Get(existing, key_fields[f], EmptyStr)))
         IN IF new_val # existing_val THEN FALSE
            ELSE FieldsMatch(new_entry, existing, f + 1)

\* a loop that returns after looking at one existing entry
DupFromFirstOnly(new_entry, existing_entries, k) ==
    IF k > Len(existing_entries) THEN FALSE
    ELSE FieldsMatch(new_entry, existing_entries[k], 1)

\* the outer loop over existing_entries, from position k on
RECURSIVE DupFrom(_, _, _)
DupFrom(new_entry, existing_entries, k) ==
    IF k > Len(existing_entries) THEN FALSE
    ELSE IF FieldsMatch(new_entry, existing_entries[k], 1) THEN TRUE
    ELSE DupFrom(new_entry, existing_entries, k + 1)

is_duplicate(new_entry, existing_entries) == DupFrom(new_entry, existing_entries, 1)

----------------------------------------------------------------------------
(* Store access: get_existing_data, append_to_sheet *)

headers == <<"date", "amount", "category", "description", "user_id", "timestamp">>

\* padded_row = row + [''] * (len(headers) - len(row)); entry = {headers[i]: padded_row[i]}
RowEntry(row) ==
    [h \in {headers[k] : k \in 1..Len(headers)} |->
        LET k == CHOOSE j \in 1..Len(headers) : headers[j] = h IN
        IF k <= Len(row) THEN row[k] ELSE EmptyStr]

\* get_existing_data given the outcome of the values().get() call
get_existing_data(values, read_ok) ==
    IF ~read_ok THEN <<>>
    ELSE IF Len(values) <= 1 THEN <<>>
    ELSE [k \in 1..(Len(values) - 1) |-> RowEntry(values[k + 1])]

\* a header skip that drops one row too many
RowsToAppendSkipTwo(data_rows, skip_header) ==
    IF skip_header /\ Len(data_rows) > 1 THEN Tail(Tail(data_rows)) ELSE data_rows

\* The number format of a column, which the program never sets: the
\* store's default, or one decimal place
NumberFormats == {"automatic", "0.0"}

\* A cell holds what was entered: text, a number (a Python int or float
\* sent with valueInputOption USER_ENTERED) or nothing (None). values().get
\* returns its formatted value: text as it is (the dates and words of this
\* model are shown as entered), a number in the column's format, where
\* the default shows a whole number without a decimal point, and '' for an
\* empty cell.
FormattedValue(cell, fmt) ==
    CASE cell.t = "null" -> EmptyStr
      [] cell.t = "str" -> cell
      [] OTHER ->
           LET negative == IF cell.t = "int" THEN cell.n < 0
                           ELSE cell.s = Minus /\ cell.n # 0
               digits == (IF negative THEN Minus ELSE <<>>) \o NatStr(Abs(cell.n))
           IN StrV(IF fmt = "automatic" THEN digits ELSE digits \o <<".", "0">>)

RECURSIVE TrimRight(_)
\* the store leaves out the empty cells at the end of a row
TrimRight(row) ==
    IF row # <<>> /\ row[Len(row)] = EmptyStr
    THEN TrimRight(SubSeq(row, 1, Len(row) - 1))
    ELSE row

\* result.get('values', []) of line 371 for the rows of the sheet
ValuesGet(rows, fmt) ==
    [r \in 1..Len(rows) |->
        TrimRight([c \in 1..Len(rows[r]) |-> FormattedValue(rows[r][c], fmt)])]

\* rows_to_append of append_to_sheet
RowsToAppend(data_rows, skip_header) ==
    IF skip_header /\ Len(data_rows) > 1 THEN Tail(data_rows) ELSE data_rows

----------------------------------------------------------------------------
(* Notifier: telegram_notifier.py *)

\* what a call of the notifier did: the number of sendMessage requests it
\* issued and the Boolean it returned
NoSend == [sent |-> 0, ok |-> FALSE]

\* send_message_to_chat for one chat id; up: the Telegram API answers 200/ok
send_message_to_chat(up) ==
    IF ~TELEGRAM_BOT_TOKEN THEN NoSend ELSE [sent |-> 1, ok |-> up]

\* the loop over TELEGRAM_CHAT_IDS and the returned success_count > 0
SendToAllChats(up) ==
    LET one == send_message_to_chat(up)
        success_count == IF one.ok THEN TELEGRAM_CHAT_IDS ELSE 0
    IN [sent |-> one.sent * TELEGRAM_CHAT_IDS, ok |-> success_count > 0]

\* a notifier that does not look at the feature flag
SendIgnoringTheFlag(transaction_data, up) ==
    IF ~TELEGRAM_BOT_TOKEN \/ TELEGRAM_CHAT_IDS = 0 THEN NoSend
    ELSE SendToAllChats(up)

send_telegram_notification(transaction_data, up) ==
    IF ~TELEGRAM_ENABLED THEN NoSend
    ELSE IF ~TELEGRAM_BOT_TOKEN \/ TELEGRAM_CHAT_IDS = 0 THEN NoSend
    ELSE SendToAllChats(up)

send_batch_notification(transaction_count, up) ==
    IF ~TELEGRAM_ENABLED \/ ~TELEGRAM_BOT_TOKEN \/ TELEGRAM_CHAT_IDS = 0 THEN NoSend
    ELSE SendToAllChats(up)

----------------------------------------------------------------------------
(* Values of one run *)

\* "2024-01-01", a date the classifier reports
D1 == StrV(<<"2", "0", "2", "4", "-", "0", "1", "-", "0", "1">>)

\* datetime.now().strftime("%Y-%m-%d"), the processing date: "2024-01-02"
TODAY == StrV(<<"2", "0", "2", "4", "-", "0", "1", "-", "0", "2">>)

\* the default category 'Lainnya'
LAINNYA == StrV(<<"L", "a", "i", "n", "n", "y", "a">>)

\* email_processor_user_id and the timestamp cell, abbreviated
USER_ID == StrV(<<"e", "p">>)

TIMESTAMP == StrV(<<"t", "s">>)

header_row == <<StrV(<<"D", "a", "t", "e">>), StrV(<<"A", "m", "o", "u", "n", "t">>),
                StrV(<<"C", "a", "t", "e", "g", "o", "r", "y">>),
                StrV(<<"D", "e", "s", "c", "r", "i", "p", "t", "i", "o", "n">>),
                StrV(<<"U", "s", "e", "r", " ", "I", "D">>),
                StrV(<<"T", "i", "m", "e", "s", "t", "a", "m", "p">>)>>

Food == StrV(<<"F", "o", "o", "d">>)

food == StrV(<<"f", "o", "o", "d">>)

Gaji == StrV(<<"G", "a", "j", "i">>)

kopi == StrV(<<"k", "o", "p", "i">>)

\* classifier objects of the run
ObjA == [amount |-> IntV(5), category |-> Food, description |-> kopi,
         transaction_type |-> EXPENSE, date |-> D1]

ObjB == [amount |-> IntV(7), category |-> Gaji, description |-> Gaji,
         transaction_type |-> INCOME, date |-> D1]

ObjNull == [amount |-> Null, category |-> Null, description |-> Null,
            transaction_type |-> EXPENSE, date |-> Null]

ObjMissing == [transaction_type |-> EXPENSE]

ObjBadAmount == [amount |-> StrV(<<"x">>), category |-> Food, description |-> kopi,
                 transaction_type |-> EXPENSE, date |-> D1]

EmptyObj == [key \in {} |-> Null]

RunResponses ==
    {RespRaise, RespInvalid, RespNonObject, RespObject(EmptyObj),
     RespObject(ObjA), RespObject(ObjB), RespObject(ObjNull),
     RespObject(ObjMissing), RespObject(ObjBadAmount)}

\* rows already in the sheet: cells are strings; trailing empty cells are
\* not returned by the store, so a row can be shorter than the header
RowA == <<D1, StrV(<<"-", "5", ".", "0">>), food, kopi, USER_ID, TIMESTAMP>>

RowDefault == <<TODAY, StrV(<<"0">>), LAINNYA>>

RunSheets ==
    {<<>>, <<header_row>>, <<header_row, RowA>>, <<header_row, RowDefault, RowA>>}

\* message payloads of the run
BodyText == <<Txt("Bayar kopi 5000")>>

PayloadPlain == Multi("multipart/alternative", <<Leaf("text/plain", Enc(BodyText))>>)

PayloadEmptyDirect == Leaf("text/plain", NoData)

PayloadEmptyParts ==
    Multi("multipart/alternative", <<Leaf("text/plain", NoData), Leaf("text/html", NoData)>>)

PayloadEmptyNested ==
    Multi("multipart/mixed",
          <<Multi("multipart/related", <<Leaf("image/png", Enc(<<Txt("png")>>))>>),
            Leaf("application/pdf", Enc(<<Txt("pdf")>>))>>)

PayloadBad == Multi("multipart/alternative", <<Leaf("text/plain", BadEnc)>>)

RunPayloads ==
    {PayloadPlain, PayloadEmptyDirect, PayloadEmptyParts, PayloadEmptyNested, PayloadBad}

RECURSIVE SeqsUpTo(_, _)
\* the sequences over S of length at most k
SeqsUpTo(S, k) ==
    IF k = 0 THEN {<<>>}
    ELSE LET shorter == SeqsUpTo(S, k - 1) IN
         shorter \cup {Append(q, x) : q \in {r \in shorter : Len(r) = k - 1}, x \in S}

\* the message resources users().messages().get returns: an id and a payload
Messages(payloads) == [k \in 1..Len(payloads) |-> [id |-> k, payload |-> payloads[k]]]

\* the value process_gmail_account hands its caller: None on every path
RetNone == Null

\* the function has not returned yet
Running == [t |-> "running", s |-> <<>>, n |-> 0]

\* the two entry points, and the runs with many candidates and few kinds of
\* input
GmailRun == mode \in {"run", "batch", "runs"}

HttpRun == mode \in {"http", "http_batch", "hook"}

Thin == mode \in {"batch", "http_batch", "hook"}

\* the classifier's object for message id in a run with many candidates:
\* the amount is the id, so no two messages give the same record
ObjN(id) == [amount |-> IntV(id), category |-> Gaji, description |-> Gaji,
             transaction_type |-> INCOME, date |-> D1]

\* the responses the classifier can give in a sequence of runs: no JSON, a
\* record with an amount, a record without one
RepeatResponses == {RespInvalid, RespObject(ObjA), RespObject(ObjMissing)}

\* the responses the classifier can give for message id
Responses(id) ==
    IF Thin THEN {RespInvalid, RespObject(ObjA), RespObject(ObjN(id))}
    ELSE IF mode = "runs" THEN RepeatResponses
    ELSE RunResponses

\* the outcomes of the mail backend's modify call
MarkOutcomes == IF Thin THEN {TRUE} ELSE BOOLEAN

\* the notifier's configuration: [enabled, token, chats]
NotifierOn == [enabled |-> TRUE, token |-> TRUE, chats |-> 2]

NotifierConfigs ==
    {NotifierOn,
     [enabled |-> FALSE, token |-> TRUE, chats |-> 2],
     [enabled |-> TRUE, token |-> FALSE, chats |-> 2],
     [enabled |-> TRUE, token |-> TRUE, chats |-> 0]}

NotifierIs(cfg) ==
    /\ TELEGRAM_ENABLED = cfg.enabled
    /\ TELEGRAM_BOT_TOKEN = cfg.token
    /\ TELEGRAM_CHAT_IDS = cfg.chats

----------------------------------------------------------------------------
(* Batch orchestrator: process_gmail_account *)

\* no response text is under test
IdleFence ==
    /\ fenceIn = <<>>
    /\ fenceOut = [done |-> FALSE, res |-> ParsedNone]

\* the run was started directly, not by the webhook, and is the first one
NoRequest == [k |-> "none"]

DirectCall ==
    /\ request = NoRequest
    /\ run_no = 1

\* idle values of the variables the pure-function specifications use
IdleTests ==
    /\ dupIn = [new_entry |-> EmptyObj, existing_entries |-> <<>>]
    /\ dupOut = [done |-> FALSE, value |-> FALSE]
    /\ normIn = EmptyObj
    /\ normOut = [done |-> FALSE, res |-> ParsedNone]
    /\ normAgain = [done |-> FALSE, res |-> ParsedNone]
    /\ extractIn = PayloadEmptyDirect
    /\ extractOut = [done |-> FALSE, res |-> ResNone]
    /\ IdleFence

\* the locals of a run before its first step
FreshLocals ==
    /\ handled = {}
    /\ emails = <<>>
    /\ existing_data = <<>>
    /\ all_data_rows = <<>>
    /\ duplicate_count = 0
    /\ processed_transactions = <<>>
    /\ idx = 0
    /\ email_body = ResNone
    /\ parsed_data = ParsedNone
    /\ processed_count = 0
    /\ log = <<>>

Init ==
    /\ mode = "run"
    /\ pc = "start"
    /\ mailbox \in {Messages(p) : p \in SeqsUpTo(RunPayloads, MaxEmails)}
    /\ sheet \in RunSheets
    /\ TELEGRAM_AVAILABLE \in BOOLEAN
    /\ NotifierIs(NotifierOn)
    /\ FreshLocals
    /\ DirectCall
    /\ returned = Running
    /\ IdleTests

\* lines 480-485: the entry built for duplicate checking
MakeEntry(pd) ==
    [date |-> Get(pd, "date", TODAY),
     amount |-> Get(pd, "amount", IntV(0)),
     category |-> Get(pd, "category", LAINNYA),
     description |-> Get(pd, "description", EmptyStr)]

\* lines 497-504
DataRow(entry) ==
    <<entry.date, entry.amount, entry.category, entry.description, USER_ID, TIMESTAMP>>

\* the candidates the query returns: the unread messages
Unread == SelectSeq(mailbox, LAMBDA m : m.id \notin handled)

\* lines 432-441: authentication and client construction; an exception here
\* is caught at line 539
Setup ==
    /\ GmailRun /\ pc = "start"
    /\ \E ok \in BOOLEAN :
         /\ pc' = IF ok THEN "fetch" ELSE "done"
         /\ returned' = IF ok THEN returned ELSE RetNone
         /\ log' = Append(log, [op |-> "setup", id |-> 0, ok |-> ok])
    /\ UNCHANGED <<mode, mailbox, handled, sheet, TELEGRAM_AVAILABLE, emails,
                   existing_data, all_data_rows, duplicate_count,
                   processed_transactions, idx, email_body, parsed_data,
                   processed_count, notifierVars, callerVars, pureVars>>

\* a fetch without the early return of line 448
FetchCandidatesGoesOn ==
    /\ GmailRun /\ pc = "fetch"
    /\ \E ok \in BOOLEAN :
         /\ emails' = IF ok THEN Unread ELSE <<>>
         /\ log' = Append(log, [op |-> "fetch", id |-> 0, ok |-> ok])
    /\ pc' = "snapshot"
    /\ UNCHANGED <<mode, mailbox, handled, sheet, TELEGRAM_AVAILABLE,
                   existing_data, all_data_rows, duplicate_count,
                   processed_transactions, idx, email_body, parsed_data, returned,
                   processed_count, notifierVars, callerVars, pureVars>>

\* lines 443-448 and get_emails: a backend error gives the empty list
FetchCandidates ==
    /\ GmailRun /\ pc = "fetch"
    /\ \E ok \in BOOLEAN :
         LET got == IF ok THEN Unread ELSE <<>> IN
         /\ emails' = got
         /\ pc' = IF got = <<>> THEN "done" ELSE "snapshot"
         /\ returned' = IF got = <<>> THEN RetNone ELSE returned
         /\ log' = Append(log, [op |-> "fetch", id |-> 0, ok |-> ok])
    /\ UNCHANGED <<mode, mailbox, handled, sheet, TELEGRAM_AVAILABLE,
                   existing_data, all_data_rows, duplicate_count,
                   processed_transactions, idx, email_body, parsed_data,
                   processed_count, notifierVars, callerVars, pureVars>>

\* lines 450-465: the snapshot and the run's accumulators
SnapshotExisting ==
    /\ GmailRun /\ pc = "snapshot"
    /\ \E ok \in BOOLEAN, fmt \in NumberFormats :
         LET snapshot == get_existing_data(ValuesGet(sheet, fmt), ok) IN
         /\ existing_data' = snapshot
         /\ log' = Append(log, [op |-> "read", id |-> 0, ok |-> ok,
                                snapshot |-> snapshot])
    /\ all_data_rows' = <<header_row>>
    /\ duplicate_count' = 0
    /\ processed_transactions' = <<>>
    /\ idx' = 1
    /\ pc' = "loop"
    /\ UNCHANGED <<mode, mailbox, handled, sheet, TELEGRAM_AVAILABLE, emails,
                   email_body, parsed_data, returned,
                   processed_count, notifierVars, callerVars, pureVars>>

\* lines 467-474: extraction for emails[idx]; an exception of the extractor
\* leaves the loop and is caught at line 539
Extract ==
    /\ GmailRun /\ pc = "loop" /\ idx <= Len(emails)
    /\ LET body == extract_email_body(emails[idx].payload) IN
         /\ log' = Append(log, [op |-> "extract", id |-> emails[idx].id, ok |-> body.k # "raise",
                                body |-> body])
         /\ IF body.k = "raise"
            THEN /\ pc' = "done"
                 /\ returned' = RetNone
                 /\ UNCHANGED <<idx, email_body>>
            ELSE IF Truthy(body)
            THEN /\ pc' = "classify"
                 /\ email_body' = body
                 /\ UNCHANGED <<idx, returned>>
            ELSE /\ idx' = idx + 1
                 /\ UNCHANGED <<pc, email_body, returned>>
    /\ UNCHANGED <<mode, mailbox, handled, sheet, TELEGRAM_AVAILABLE, emails,
                   existing_data, all_data_rows, duplicate_count,
                   processed_transactions, parsed_data,
                   processed_count, notifierVars, callerVars, pureVars>>

\* lines 476-478: the classifier call for emails[idx]
Classify ==
    /\ GmailRun /\ pc = "classify"
    /\ \E response \in Responses(emails[idx].id) :
         LET pd == parse_email_with_gemini(email_body, response) IN
         /\ log' = Append(log, [op |-> "classify", id |-> emails[idx].id,
                                ok |-> ParsedTruthy(pd), response |-> response])
         /\ IF ParsedTruthy(pd)
            THEN /\ parsed_data' = pd
                 /\ pc' = "dedup"
                 /\ UNCHANGED <<idx, email_body>>
            ELSE /\ idx' = idx + 1
                 /\ pc' = "loop"
                 /\ email_body' = ResNone
                 /\ UNCHANGED parsed_data
    /\ UNCHANGED <<mode, mailbox, handled, sheet, TELEGRAM_AVAILABLE, emails,
                   existing_data, all_data_rows, duplicate_count,
                   processed_transactions, returned,
                   processed_count, notifierVars, callerVars, pureVars>>

\* a duplicate check that also looks at the rows staged so far in the run
CheckedAgainstWithStaged ==
    existing_data \o [k \in 1..(Len(all_data_rows) - 1) |-> RowEntry(all_data_rows[k + 1])]

\* line 488: the list is_duplicate is given, the snapshot taken before the loop
CheckedAgainst == existing_data

\* a duplicate check after which a discarded message is not marked
DedupCheckLeavesDuplicateUnmarked ==
    /\ GmailRun /\ pc = "dedup"
    /\ LET entry == MakeEntry(parsed_data.data)
           dup == is_duplicate(entry, CheckedAgainst)
       IN
         /\ log' = Append(log, [op |-> IF dup THEN "duplicate" ELSE "stage",
                                id |-> emails[idx].id, ok |-> TRUE, entry |-> entry])
         /\ IF dup
            THEN /\ duplicate_count' = duplicate_count + 1
                 /\ idx' = idx + 1
                 /\ pc' = "loop"
                 /\ UNCHANGED <<all_data_rows, processed_transactions>>
            ELSE /\ all_data_rows' = Append(all_data_rows, DataRow(entry))
                 /\ processed_transactions' = Append(processed_transactions, entry)
                 /\ pc' = "mark"
                 /\ UNCHANGED <<duplicate_count, idx>>
    /\ UNCHANGED <<mode, mailbox, handled, sheet, TELEGRAM_AVAILABLE, emails,
                   existing_data, email_body, parsed_data, returned,
                   processed_count, notifierVars, callerVars, pureVars>>

\* lines 480-507: entry, duplicate check, staging
DedupCheck ==
    /\ GmailRun /\ pc = "dedup"
    /\ LET entry == MakeEntry(parsed_data.data)
           dup == is_duplicate(entry, CheckedAgainst)
       IN
         /\ log' = Append(log, [op |-> IF dup THEN "duplicate" ELSE "stage",
                                id |-> emails[idx].id, ok |-> TRUE, entry |-> entry])
         /\ IF dup
            THEN /\ duplicate_count' = duplicate_count + 1
                 /\ UNCHANGED <<all_data_rows, processed_transactions>>
            ELSE /\ all_data_rows' = Append(all_data_rows, DataRow(entry))
                 /\ processed_transactions' = Append(processed_transactions, entry)
                 /\ UNCHANGED duplicate_count
    /\ pc' = "mark"
    /\ UNCHANGED <<mode, mailbox, handled, sheet, TELEGRAM_AVAILABLE, emails,
                   existing_data, idx, email_body, parsed_data, returned,
                   processed_count, notifierVars, callerVars, pureVars>>

\* lines 493 / 510 and mark_email_processed: the label and read flag are set
\* unless the mail backend fails, which the function swallows
MarkHandled ==
    /\ GmailRun /\ pc = "mark"
    /\ \E ok \in MarkOutcomes :
         /\ handled' = IF ok THEN handled \cup {emails[idx].id} ELSE handled
         /\ log' = Append(log, [op |-> "mark", id |-> emails[idx].id, ok |-> ok])
    /\ idx' = idx + 1
    /\ pc' = "loop"
    /\ email_body' = ResNone
    /\ parsed_data' = ParsedNone
    /\ UNCHANGED <<mode, mailbox, sheet, TELEGRAM_AVAILABLE, emails,
                   existing_data, all_data_rows, duplicate_count,
                   processed_transactions, returned,
                   processed_count, notifierVars, callerVars, pureVars>>

\* lines 512-517 and append_to_sheet: one batched append after the loop,
\* whose failure append_to_sheet swallows; lines 534-537 when nothing is staged
Commit ==
    /\ GmailRun /\ pc = "loop" /\ idx > Len(emails)
    /\ IF Len(all_data_rows) > 1
       THEN LET should_skip_header == Len(existing_data) > 0
                rows_to_append == RowsToAppend(all_data_rows, should_skip_header)
            IN
            /\ pc' = "notify"
            /\ UNCHANGED returned
            /\ IF rows_to_append = <<>>
               THEN UNCHANGED <<sheet, log>>
               ELSE \E ok \in BOOLEAN :
                      /\ sheet' = IF ok THEN sheet \o rows_to_append ELSE sheet
                      /\ log' = Append(log, [op |-> "append", id |-> 0, ok |-> ok,
                                             rows |-> rows_to_append])
       ELSE /\ pc' = "done"
            /\ returned' = RetNone
            /\ UNCHANGED <<sheet, log>>
    /\ UNCHANGED <<mode, mailbox, handled, TELEGRAM_AVAILABLE, emails,
                   existing_data, all_data_rows, duplicate_count,
                   processed_transactions, idx, email_body, parsed_data,
                   processed_count, notifierVars, callerVars, pureVars>>

BATCH_THRESHOLD == 5

RECURSIVE NotifyEach(_, _)
\* one send_telegram_notification call per processed transaction
NotifyEach(transactions, up) ==
    IF transactions = <<>> THEN <<>>
    ELSE LET r == send_telegram_notification(transactions[1], up) IN
         <<[op |-> "notify", id |-> 0, ok |-> r.ok, sent |-> r.sent,
            entry |-> transactions[1]]>>
         \o NotifyEach(Tail(transactions), up)

\* the one send_batch_notification call
NotifyBatch(transactions_count, up) ==
    LET r == send_batch_notification(transactions_count, up) IN
    <<[op |-> "batch", id |-> 0, ok |-> r.ok, sent |-> r.sent,
       count |-> transactions_count]>>

\* a batch summary from the threshold on, not above it
NotificationsFromThreshold(transactions_count, transactions, up) ==
    IF TELEGRAM_AVAILABLE /\ transactions_count > 0
    THEN IF transactions_count >= BATCH_THRESHOLD
         THEN NotifyBatch(transactions_count, up)
         ELSE NotifyEach(transactions, up)
    ELSE <<>>

\* lines 523-530: the calls of the notifier for a count and a list
Notifications(transactions_count, transactions, up) ==
    IF TELEGRAM_AVAILABLE /\ transactions_count > 0
    THEN IF transactions_count > BATCH_THRESHOLD
         THEN NotifyBatch(transactions_count, up)
         ELSE NotifyEach(transactions, up)
    ELSE <<>>

\* lines 519-533: the notifications, then the function ends
Notify ==
    /\ GmailRun /\ pc = "notify"
    /\ \E up \in BOOLEAN :
         LET transactions_count == Len(all_data_rows) - 1 IN
         log' = log \o Notifications(transactions_count, processed_transactions, up)
    /\ pc' = "done"
    /\ returned' = RetNone
    /\ UNCHANGED <<mode, mailbox, handled, sheet, TELEGRAM_AVAILABLE, emails,
                   existing_data, all_data_rows, duplicate_count,
                   processed_transactions, idx, email_body, parsed_data,
                   processed_count, notifierVars, callerVars, pureVars>>

Next ==
    \/ Setup
    \/ FetchCandidates
    \/ SnapshotExisting
    \/ Extract
    \/ Classify
    \/ DedupCheck
    \/ MarkHandled
    \/ Commit
    \/ Notify

Spec == Init /\ [][Next]_vars

\* the interpreter runs the function to its end: a step that can be taken
\* is taken
SpecLive == Init /\ [][Next]_vars /\ WF_vars(Next)

----------------------------------------------------------------------------
(* Runs of process_gmail_account one after the other on the same mailbox  *)
(* and sheet: the script is started again, and the sheet is new or holds  *)
(* the header row when the first run starts                               *)

\* a message with text and a message without
RepeatPayloads == {PayloadPlain, PayloadEmptyDirect}

InitRuns ==
    /\ mode = "runs"
    /\ pc = "start"
    /\ mailbox \in {Messages(p) : p \in SeqsUpTo(RepeatPayloads, MaxEmails)}
    /\ sheet \in {<<>>, <<header_row>>}
    /\ TELEGRAM_AVAILABLE = FALSE
    /\ NotifierIs(NotifierOn)
    /\ FreshLocals
    /\ DirectCall
    /\ returned = Running
    /\ IdleTests

\* lines 548-551: process_gmail_account is called again; a message may
\* have arrived in the meantime
RunAgain ==
    /\ mode = "runs" /\ pc = "done" /\ run_no < MaxRuns
    /\ run_no' = run_no + 1
    /\ \E arrived \in BOOLEAN :
         mailbox' = IF arrived /\ Len(mailbox) < MaxEmails
                    THEN Append(mailbox, [id |-> Len(mailbox) + 1, payload |-> PayloadPlain])
                    ELSE mailbox
    /\ pc' = "start"
    /\ emails' = <<>>
    /\ existing_data' = <<>>
    /\ all_data_rows' = <<>>
    /\ duplicate_count' = 0
    /\ processed_transactions' = <<>>
    /\ idx' = 0
    /\ email_body' = ResNone
    /\ parsed_data' = ParsedNone
    /\ returned' = Running
    /\ log' = <<>>
    /\ UNCHANGED <<mode, handled, sheet, TELEGRAM_AVAILABLE, processed_count, request,
                   notifierVars, pureVars>>

NextRuns ==
    \/ Next
    \/ RunAgain

SpecRuns == InitRuns /\ [][NextRuns]_vars

----------------------------------------------------------------------------
(* HTTP-triggered run: process_emails of api/process.py *)

\* the dict process_emails returns; the body is the object json.dumps is given
HttpError(status, error) == [statusCode |-> status, body |-> [error |-> error]]

HttpOk(message, count) ==
    [statusCode |-> 200, body |-> [message |-> message, processed |-> count]]

\* a setup without the check of GEMINI_API_KEY
SetupOutcomeKeyUnchecked(creds, built, key, client) ==
    IF ~creds THEN HttpError(401, "Authentication credentials not found")
    ELSE IF ~built THEN HttpError(500, "build")
    ELSE IF key /\ ~client THEN HttpError(500, "genai")
    ELSE Running

\* the outcome of lines 211-229, given whether get_credentials_from_env
\* found credentials, whether build() raised, whether GEMINI_API_KEY is set
\* and whether initialize_gemini_client raised: the first failing step decides
SetupOutcome(creds, built, key, client) ==
    IF ~creds THEN HttpError(401, "Authentication credentials not found")
    ELSE IF ~built THEN HttpError(500, "build")
    ELSE IF ~key THEN HttpError(400, "Gemini API key not configured")
    ELSE IF ~client THEN HttpError(500, "genai")
    ELSE Running

InitHttp ==
    /\ mode = "http"
    /\ pc = "start"
    /\ mailbox \in {Messages(p) : p \in SeqsUpTo(RunPayloads, MaxEmails)}
    /\ sheet \in RunSheets
    /\ TELEGRAM_AVAILABLE \in BOOLEAN
    /\ NotifierIs(NotifierOn)
    /\ FreshLocals
    /\ DirectCall
    /\ returned = Running
    /\ IdleTests

\* the variables process_emails has no counterpart for
gmailLocals == <<existing_data, all_data_rows, duplicate_count>>

\* lines 209-229: credentials, clients, API key
HttpSetup ==
    /\ HttpRun /\ pc = "start"
    /\ \E creds \in BOOLEAN, built \in BOOLEAN, key \in BOOLEAN, client \in BOOLEAN :
         LET outcome == SetupOutcome(creds, built, key, client) IN
         /\ returned' = outcome
         /\ pc' = IF outcome = Running THEN "fetch" ELSE "done"
         /\ log' = Append(log, [op |-> "setup", id |-> 0, ok |-> outcome = Running,
                                creds |-> creds, key |-> key,
                                raised |-> creds /\ (~built \/ (key /\ ~client))])
    /\ UNCHANGED <<mode, mailbox, handled, sheet, TELEGRAM_AVAILABLE, emails,
                   gmailLocals, processed_transactions, idx, email_body, parsed_data,
                   processed_count, notifierVars, callerVars, pureVars>>

\* lines 231-242 and get_emails: a backend error gives the empty list
HttpFetch ==
    /\ HttpRun /\ pc = "fetch"
    /\ \E ok \in BOOLEAN :
         LET got == IF ok THEN Unread ELSE <<>> IN
         /\ emails' = got
         /\ pc' = IF got = <<>> THEN "done" ELSE "loop"
         /\ idx' = IF got = <<>> THEN idx ELSE 1
         /\ returned' = IF got = <<>> THEN HttpOk("No emails found", 0) ELSE returned
         /\ log' = Append(log, [op |-> "fetch", id |-> 0, ok |-> ok])
    /\ processed_count' = 0
    /\ processed_transactions' = <<>>
    /\ UNCHANGED <<mode, mailbox, handled, sheet, TELEGRAM_AVAILABLE,
                   gmailLocals, email_body, parsed_data, notifierVars, callerVars, pureVars>>

\* lines 244-250: extraction for emails[idx]; an exception of the extractor
\* is caught at line 304
HttpExtract ==
    /\ HttpRun /\ pc = "loop" /\ idx <= Len(emails)
    /\ LET body == extract_email_body(emails[idx].payload) IN
         /\ log' = Append(log, [op |-> "extract", id |-> emails[idx].id, ok |-> body.k # "raise",
                                body |-> body])
         /\ IF body.k = "raise"
            THEN /\ pc' = "done"
                 /\ returned' = HttpError(500, "decode")
                 /\ UNCHANGED <<idx, email_body>>
            ELSE IF Truthy(body)
            THEN /\ pc' = "classify"
                 /\ email_body' = body
                 /\ UNCHANGED <<idx, returned>>
            ELSE /\ idx' = idx + 1
                 /\ UNCHANGED <<pc, email_body, returned>>
    /\ UNCHANGED <<mode, mailbox, handled, sheet, TELEGRAM_AVAILABLE, emails,
                   gmailLocals, processed_transactions, parsed_data,
                   processed_count, notifierVars, callerVars, pureVars>>

\* lines 251-253: the classifier call for emails[idx]
HttpClassify ==
    /\ HttpRun /\ pc = "classify"
    /\ \E response \in Responses(emails[idx].id) :
         LET pd == parse_email_with_gemini(email_body, response) IN
         /\ log' = Append(log, [op |-> "classify", id |-> emails[idx].id,
                                ok |-> ParsedTruthy(pd), response |-> response])
         /\ IF ParsedTruthy(pd)
            THEN /\ parsed_data' = pd
                 /\ pc' = "append"
                 /\ UNCHANGED <<idx, email_body>>
            ELSE /\ idx' = idx + 1
                 /\ pc' = "loop"
                 /\ email_body' = ResNone
                 /\ UNCHANGED parsed_data
    /\ UNCHANGED <<mode, mailbox, handled, sheet, TELEGRAM_AVAILABLE, emails,
                   gmailLocals, processed_transactions, returned,
                   processed_count, notifierVars, callerVars, pureVars>>

\* the outcomes of the store's append call in process_emails
HttpAppendOutcomes == IF Thin THEN {TRUE} ELSE BOOLEAN

\* an append whose failure does not keep the message from being marked read
HttpAppendThenMarkAnyway ==
    /\ HttpRun /\ pc = "append"
    /\ LET data_row == DataRow(MakeEntry(parsed_data.data)) IN
       \E ok \in HttpAppendOutcomes :
         /\ log' = Append(log, [op |-> "append", id |-> emails[idx].id, ok |-> ok,
                                rows |-> <<data_row>>, at |-> Len(sheet) + 1])
         /\ IF ok
            THEN /\ sheet' = Append(sheet, data_row)
                 /\ processed_count' = processed_count + 1
                 /\ processed_transactions' = Append(processed_transactions, parsed_data.data)
            ELSE UNCHANGED <<sheet, processed_count, processed_transactions>>
         /\ pc' = "modify"
         /\ UNCHANGED <<idx, email_body, parsed_data>>
    /\ UNCHANGED <<mode, mailbox, handled, TELEGRAM_AVAILABLE, emails,
                   gmailLocals, returned, notifierVars, callerVars, pureVars>>

\* lines 255-276: the row of emails[idx] is appended on its own; a failure
\* is caught at line 285 and the loop goes on
HttpAppend ==
    /\ HttpRun /\ pc = "append"
    /\ LET data_row == DataRow(MakeEntry(parsed_data.data)) IN
       \E ok \in HttpAppendOutcomes :
         /\ log' = Append(log, [op |-> "append", id |-> emails[idx].id, ok |-> ok,
                                rows |-> <<data_row>>, at |-> Len(sheet) + 1])
         /\ IF ok
            THEN /\ sheet' = Append(sheet, data_row)
                 /\ processed_count' = processed_count + 1
                 /\ processed_transactions' = Append(processed_transactions, parsed_data.data)
                 /\ pc' = "modify"
                 /\ UNCHANGED <<idx, email_body, parsed_data>>
            ELSE /\ idx' = idx + 1
                 /\ pc' = "loop"
                 /\ email_body' = ResNone
                 /\ parsed_data' = ParsedNone
                 /\ UNCHANGED <<sheet, processed_count, processed_transactions>>
    /\ UNCHANGED <<mode, mailbox, handled, TELEGRAM_AVAILABLE, emails,
                   gmailLocals, returned, notifierVars, callerVars, pureVars>>

\* lines 278-286: the UNREAD label is removed; a failure is caught at line 285
HttpMarkRead ==
    /\ HttpRun /\ pc = "modify"
    /\ \E ok \in MarkOutcomes :
         /\ handled' = IF ok THEN handled \cup {emails[idx].id} ELSE handled
         /\ log' = Append(log, [op |-> "mark", id |-> emails[idx].id, ok |-> ok])
    /\ idx' = idx + 1
    /\ pc' = "loop"
    /\ email_body' = ResNone
    /\ parsed_data' = ParsedNone
    /\ UNCHANGED <<mode, mailbox, sheet, TELEGRAM_AVAILABLE, emails,
                   gmailLocals, processed_transactions, returned,
                   processed_count, notifierVars, callerVars, pureVars>>

\* lines 288-302: the notifications and the response
HttpFinish ==
    /\ HttpRun /\ pc = "loop" /\ idx > Len(emails)
    /\ \E up \in BOOLEAN :
         log' = log \o Notifications(processed_count, processed_transactions, up)
    /\ pc' = "done"
    /\ returned' = HttpOk("Successfully processed", processed_count)
    /\ UNCHANGED <<mode, mailbox, handled, sheet, TELEGRAM_AVAILABLE, emails,
                   gmailLocals, processed_transactions, idx, email_body, parsed_data,
                   processed_count, notifierVars, callerVars, pureVars>>

NextHttp ==
    \/ HttpSetup
    \/ HttpFetch
    \/ HttpExtract
    \/ HttpClassify
    \/ HttpAppend
    \/ HttpMarkRead
    \/ HttpFinish

SpecHttp == InitHttp /\ [][NextHttp]_vars

\* both entry points
InitEntryPoints == Init \/ InitHttp

NextEntryPoints == Next \/ NextHttp

SpecEntryPoints == InitEntryPoints /\ [][NextEntryPoints]_vars

----------------------------------------------------------------------------
(* Push-notification receiver: handler.do_POST of api/webhook.py *)

\* A JSON value as json.loads returns it: its type, the keys of a dict (the
\* elements of a list, the words a string contains), the values under the
\* keys, its truthiness, and what base64.b64decode(v).decode('utf-8')
\* followed by json.loads makes of it.
Undecodable == [k |-> "raise", v |-> <<>>]

Decoded(v) == [k |-> "value", v |-> v]

JNull == [t |-> "null", has |-> {}, f |-> <<>>, truthy |-> FALSE, enc |-> Undecodable]

JNumber(n) == [t |-> "num", has |-> {}, f |-> <<>>, truthy |-> n # 0, enc |-> Undecodable]

\* a string that is no base64 text of a JSON document
JString(words) ==
    [t |-> "str", has |-> words, f |-> <<>>, truthy |-> TRUE, enc |-> Undecodable]

JEmptyString == [t |-> "str", has |-> {}, f |-> <<>>, truthy |-> FALSE, enc |-> Undecodable]

\* the base64 text of the JSON document of v
JBase64(v) == [t |-> "str", has |-> {}, f |-> <<>>, truthy |-> TRUE, enc |-> Decoded(v)]

JList(elements) ==
    [t |-> "list", has |-> elements, f |-> <<>>, truthy |-> elements # {}, enc |-> Undecodable]

JDict(fields) ==
    [t |-> "dict", has |-> DOMAIN fields, f |-> fields, truthy |-> DOMAIN fields # {},
     enc |-> Undecodable]

JEmptyDict == JDict([key \in {} |-> JNull])

\* 'key in v' raises TypeError for a number and for None
Iterable(v) == v.t \in {"dict", "list", "str"}

\* the three ways do_POST ends: it triggers the pipeline and sends its
\* result, it answers 200 "no processing required", or it answers 500
\* from the handler of line 98
HookProcess == "process"

HookIgnore == "ignore"

HookError == "error"

\* lines 55-64: gmail_data for a message that can be searched for 'data'
GmailData(message) ==
    IF "data" \in message.has
    THEN IF message.t = "dict" /\ message.f["data"].enc.k = "value"
         THEN message.f["data"].enc.v
         ELSE JEmptyDict
    ELSE JEmptyDict

\* lines 40-111: what do_POST does with the request
HookDecision(req) ==
    IF req.k \in {"bad_length", "not_utf8"} THEN HookError
    ELSE IF req.k = "not_json" THEN HookIgnore
    ELSE LET notification_data == req.v IN
         IF ~Iterable(notification_data) THEN HookError
         ELSE IF "message" \notin notification_data.has THEN HookIgnore
         ELSE IF notification_data.t # "dict" THEN HookError
         ELSE LET message == notification_data.f["message"] IN
              IF ~Iterable(message) THEN HookError
              ELSE LET gmail_data == GmailData(message) IN
                   IF gmail_data.t # "dict" THEN HookError
                   ELSE IF "historyId" \in gmail_data.has
                           /\ gmail_data.f["historyId"].truthy
                   THEN HookProcess
                   ELSE HookIgnore

\* the documents the data field can decode to
PushData ==
    {JNumber(7), JNull, JList({}), JString({"historyId"}), JEmptyDict,
     JDict([emailAddress |-> JString({})])}
    \cup {JDict([historyId |-> h]) :
             h \in {JNull, JNumber(0), JNumber(7), JEmptyString, JString({})}}

\* the values of the message field
PushMessages ==
    {JNumber(7), JNull, JString({"data"}), JString({}), JList({"data"}), JEmptyDict,
     JDict([data |-> JNumber(7)]), JDict([data |-> JString({})])}
    \cup {JDict([data |-> JBase64(g)]) : g \in PushData}

\* the request bodies: a Content-Length that is no number, bytes that are
\* not UTF-8, text that is not JSON, and JSON documents
HookRequests ==
    {[k |-> "bad_length", v |-> JNull], [k |-> "not_utf8", v |-> JNull],
     [k |-> "not_json", v |-> JNull]}
    \cup {[k |-> "json", v |-> v] :
             v \in {JNumber(7), JNull, JString({"message"}), JString({}), JList({"message"}),
                    JEmptyDict}
                   \cup {JDict([message |-> m]) : m \in PushMessages}}

\* the answers do_POST builds itself
HookNoProcessing ==
    [statusCode |-> 200, body |-> [message |-> "Webhook received but no processing required"]]

HookFailed == [statusCode |-> 500, body |-> [error |-> "exception"]]

InitHook ==
    /\ mode = "hook"
    /\ pc = "post"
    /\ mailbox \in {Messages(p) : p \in SeqsUpTo({PayloadPlain}, MaxEmails)}
    /\ sheet = <<header_row, RowA>>
    /\ TELEGRAM_AVAILABLE = FALSE
    /\ NotifierIs(NotifierOn)
    /\ FreshLocals
    /\ request \in HookRequests
    /\ run_no = 1
    /\ returned = Running
    /\ IdleTests

\* do_POST up to the call of process_emails, whose result it sends as it is
HookPost ==
    /\ mode = "hook" /\ pc = "post"
    /\ LET decision == HookDecision(request) IN
         /\ pc' = IF decision = HookProcess THEN "start" ELSE "done"
         /\ returned' = CASE decision = HookProcess -> returned
                           [] decision = HookIgnore -> HookNoProcessing
                           [] OTHER -> HookFailed
    /\ UNCHANGED <<mode, mailbox, handled, sheet, TELEGRAM_AVAILABLE, emails,
                   gmailLocals, processed_transactions, idx, email_body, parsed_data,
                   processed_count, log, notifierVars, callerVars, pureVars>>

NextHook ==
    \/ HookPost
    \/ NextHttp

SpecHook == InitHook /\ [][NextHook]_vars

----------------------------------------------------------------------------
(* Runs of process_gmail_account and of process_emails with up to MaxBatch *)
(* candidates: every message has a plain-text body, the classifier answers *)
(* with no JSON, with the record of the sheet's row or with a record of    *)
(* its own, the modify calls succeed, and the notifier is configured or    *)
(* lacks its flag, its token or its chat ids                               *)

\* the sheet holds one record already
BatchSheets == {<<header_row, RowA>>}

BatchMailboxes == {Messages([k \in 1..n |-> PayloadPlain]) : n \in 0..MaxBatch}

\* the import of telegram_notifier succeeded with some configuration, or failed
NotifierSetups ==
    \/ TELEGRAM_AVAILABLE = TRUE /\ \E cfg \in NotifierConfigs : NotifierIs(cfg)
    \/ TELEGRAM_AVAILABLE = FALSE /\ NotifierIs(NotifierOn)

InitBatch ==
    /\ mode = "batch"
    /\ pc = "start"
    /\ mailbox \in BatchMailboxes
    /\ sheet \in BatchSheets
    /\ NotifierSetups
    /\ FreshLocals
    /\ DirectCall
    /\ returned = Running
    /\ IdleTests

InitHttpBatch ==
    /\ mode = "http_batch"
    /\ pc = "start"
    /\ mailbox \in BatchMailboxes
    /\ sheet \in BatchSheets
    /\ NotifierSetups
    /\ FreshLocals
    /\ DirectCall
    /\ returned = Running
    /\ IdleTests

InitBatches == InitBatch \/ InitHttpBatch

SpecBatch == InitBatches /\ [][NextEntryPoints]_vars

----------------------------------------------------------------------------
(* is_duplicate as a pure function, over bounded inputs *)

\* idle values of the run's variables
IdleRun ==
    /\ pc = "idle"
    /\ mailbox = <<>>
    /\ sheet = <<>>
    /\ TELEGRAM_AVAILABLE = FALSE
    /\ NotifierIs(NotifierOn)
    /\ FreshLocals
    /\ DirectCall
    /\ returned = Running

FOOD == StrV(<<"F", "O", "O", "D">>)

KOPI == StrV(<<"K", "O", "P", "I">>)

NoneStr == StrV(<<"n", "o", "n", "e">>)

Minus5Float == StrV(<<"-", "5", ".", "0">>)

Minus5Int == StrV(<<"-", "5">>)

\* candidate entries: normalised amounts are floats, a default amount an int,
\* a null the classifier returned is None
DupCandidates ==
    {[date |-> d, amount |-> a, category |-> c, description |-> t] :
        d \in {D1, EmptyStr}, a \in {FloatV(Minus, 5), IntV(-5), Null},
        c \in {Food, food, EmptyStr}, t \in {kopi, EmptyStr}}
    \cup {[amount |-> FloatV(Minus, 5), category |-> Food],
          [date |-> D1, amount |-> FloatV(Minus, 5), category |-> food]}

\* existing records: rows read back from the sheet, and dicts lacking keys
DupExisting ==
    {RowEntry(RowA),
     RowEntry(<<D1, Minus5Int, FOOD, kopi>>),
     RowEntry(<<D1, NoneStr, FOOD>>),
     RowEntry(<<EmptyStr, Minus5Float>>),
     [amount |-> Minus5Float, category |-> food],
     RowEntry(<<D1, Minus5Float, FOOD, KOPI>>)}

InitDup ==
    /\ mode = "dup"
    /\ IdleRun
    /\ dupIn \in [new_entry : DupCandidates,
                  existing_entries : SeqsUpTo(DupExisting, MaxExisting)]
    /\ dupOut = [done |-> FALSE, value |-> FALSE]
    /\ normIn = EmptyObj
    /\ normOut = [done |-> FALSE, res |-> ParsedNone]
    /\ normAgain = [done |-> FALSE, res |-> ParsedNone]
    /\ extractIn = PayloadEmptyDirect
    /\ extractOut = [done |-> FALSE, res |-> ResNone]
    /\ IdleFence

CheckDuplicate ==
    /\ mode = "dup" /\ ~dupOut.done
    /\ dupOut' = [done |-> TRUE,
                  value |-> is_duplicate(dupIn.new_entry, dupIn.existing_entries)]
    /\ UNCHANGED <<mode, runVars, dupIn, normIn, normOut, normAgain, extractIn, extractOut,
                   fenceVars>>

NextDup == CheckDuplicate

SpecDup == InitDup /\ [][NextDup]_vars

----------------------------------------------------------------------------
(* The amount normalisation as a pure function, over bounded inputs *)

\* stands for a key the classifier's object does not have
Absent == [t |-> "absent", s |-> <<>>, n |-> 0]

NormAmounts ==
    {Absent, Null, StrV(<<"2">>), StrV(<<"-", "2">>), StrV(<<"x">>)}
    \cup {IntV(k) : k \in (0 - MaxAmount)..MaxAmount}
    \cup {FloatV(sg, k) : sg \in {<<>>, Minus}, k \in 0..MaxAmount}

NormTypes ==
    {Absent, Null, EXPENSE, INCOME,
     StrV(<<"E", "x", "p", "e", "n", "s", "e">>),
     StrV(<<"t", "r", "a", "n", "s", "f", "e", "r">>)}

NormObjects ==
    {[f \in {"category"} \cup (IF a = Absent THEN {} ELSE {"amount"})
                         \cup (IF ty = Absent THEN {} ELSE {"transaction_type"}) |->
        IF f = "amount" THEN a ELSE IF f = "transaction_type" THEN ty ELSE Food] :
        a \in NormAmounts, ty \in NormTypes}

InitNorm ==
    /\ mode = "norm"
    /\ IdleRun
    /\ dupIn = [new_entry |-> EmptyObj, existing_entries |-> <<>>]
    /\ dupOut = [done |-> FALSE, value |-> FALSE]
    /\ normIn \in NormObjects
    /\ normOut = [done |-> FALSE, res |-> ParsedNone]
    /\ normAgain = [done |-> FALSE, res |-> ParsedNone]
    /\ extractIn = PayloadEmptyDirect
    /\ extractOut = [done |-> FALSE, res |-> ResNone]
    /\ IdleFence

Normalize ==
    /\ mode = "norm" /\ ~normOut.done
    /\ normOut' = [done |-> TRUE,
                   res |-> parse_email_with_gemini(ResText(BodyText), RespObject(normIn))]
    /\ UNCHANGED <<mode, runVars, dupIn, dupOut, normIn, normAgain, extractIn, extractOut,
                   fenceVars>>

\* the record that came out is given to the normalisation again, as the
\* object of a second classifier response
Renormalize ==
    /\ mode = "norm" /\ normOut.done /\ normOut.res.ok /\ ~normAgain.done
    /\ normAgain' = [done |-> TRUE,
                     res |-> parse_email_with_gemini(ResText(BodyText),
                                                     RespObject(normOut.res.data))]
    /\ UNCHANGED <<mode, runVars, dupIn, dupOut, normIn, normOut, extractIn, extractOut,
                   fenceVars>>

NextNorm ==
    \/ Normalize
    \/ Renormalize

SpecNorm == InitNorm /\ [][NextNorm]_vars

----------------------------------------------------------------------------
(* extract_email_body as a pure function, over bounded payload trees *)

HtmlDoc == <<Tag("p"), Txt("Beli kopi 20000"), Tag("/p")>>

\* markup inside the sentence, and text after the last tag that ends in an
\* unfinished reference
HtmlRich == <<Tag("p"), Txt("Beli"), Tag("b"), Txt("kopi"), Tag("/b"), Txt("20000"),
              Tag("/p"), Amp("R&D")>>

PartPlain == Leaf("text/plain", Enc(BodyText))

PartHtml == Leaf("text/html", Enc(HtmlDoc))

PartHtmlRich == Leaf("text/html", Enc(HtmlRich))

PartHtmlTagsOnly == Leaf("text/html", Enc(<<Tag("br")>>))

PartPlainEmpty == Leaf("text/plain", NoData)

PartHtmlEmpty == Leaf("text/html", NoData)

PartImage == Leaf("image/png", Enc(<<Txt("png")>>))

PartPlainBad == Leaf("text/plain", BadEnc)

BoxPlain == Multi("multipart/alternative", <<Leaf("text/plain", Enc(<<Txt("Transfer 7000")>>))>>)

BoxEmpty == Multi("multipart/related", <<PartImage, PartPlainEmpty>>)

BoxHtmlFirst == Multi("multipart/alternative", <<PartHtml, PartPlain>>)

BoxDeep ==
    Multi("multipart/mixed",
          <<BoxEmpty, Multi("multipart/alternative",
                            <<Leaf("text/plain", Enc(<<Txt("Gaji 9000")>>))>>)>>)

ExtractPartSet ==
    {PartPlain, PartHtml, PartHtmlRich, PartHtmlTagsOnly, PartPlainEmpty, PartHtmlEmpty,
     PartImage, PartPlainBad, BoxPlain, BoxEmpty, BoxHtmlFirst, BoxDeep}

\* HTML bodies: tags and text runs, no two text runs next to each other
HtmlContents ==
    {c \in SeqsUpTo({Tag("p"), Tag("br"), Txt("Beli"), Amp("R&D")}, MaxTokens) :
        \A k \in 1..(Len(c) - 1) : c[k].tag \/ c[k + 1].tag}

\* payloads with a parts list, payloads that carry their body directly, and
\* payloads whose only content is one of the HTML bodies
ExtractPayloads ==
    {Multi("multipart/mixed", parts) : parts \in SeqsUpTo(ExtractPartSet, MaxParts)}
    \cup {PartPlain, PartHtml, PartHtmlRich, PartHtmlTagsOnly, PartPlainEmpty,
          PartImage, PartPlainBad}
    \cup {Leaf("text/html", Enc(c)) : c \in HtmlContents}
    \cup {Multi("multipart/alternative", <<Leaf("text/html", Enc(c))>>) : c \in HtmlContents}

InitExtract ==
    /\ mode = "extract"
    /\ IdleRun
    /\ dupIn = [new_entry |-> EmptyObj, existing_entries |-> <<>>]
    /\ dupOut = [done |-> FALSE, value |-> FALSE]
    /\ normIn = EmptyObj
    /\ normOut = [done |-> FALSE, res |-> ParsedNone]
    /\ normAgain = [done |-> FALSE, res |-> ParsedNone]
    /\ extractIn \in ExtractPayloads
    /\ extractOut = [done |-> FALSE, res |-> ResNone]
    /\ IdleFence

ExtractBody ==
    /\ mode = "extract" /\ ~extractOut.done
    /\ extractOut' = [done |-> TRUE, res |-> extract_email_body(extractIn)]
    /\ UNCHANGED <<mode, runVars, dupIn, dupOut, normIn, normOut, normAgain, extractIn,
                   fenceVars>>

NextExtract == ExtractBody

SpecExtract == InitExtract /\ [][NextExtract]_vars

----------------------------------------------------------------------------
(* The cleaning and parsing of the classifier's response text as a pure *)
(* function, over bounded texts                                         *)

FenceChunks ==
    {Fence, JsonWord, Blank, JsonText(ObjA), JsonText(ObjB), ScalarText, Prose}

\* every text of at most MaxChunks chunks in which no two chunks of white
\* space or of prose are neighbours
FenceTexts ==
    {t \in SeqsUpTo(FenceChunks, MaxChunks) :
        \A i \in 1..(Len(t) - 1) : t[i] = t[i + 1] => t[i] \notin {Blank, Prose}}

InitFence ==
    /\ mode = "fence"
    /\ IdleRun
    /\ dupIn = [new_entry |-> EmptyObj, existing_entries |-> <<>>]
    /\ dupOut = [done |-> FALSE, value |-> FALSE]
    /\ normIn = EmptyObj
    /\ normOut = [done |-> FALSE, res |-> ParsedNone]
    /\ normAgain = [done |-> FALSE, res |-> ParsedNone]
    /\ extractIn = PayloadEmptyDirect
    /\ extractOut = [done |-> FALSE, res |-> ResNone]
    /\ fenceIn \in FenceTexts
    /\ fenceOut = [done |-> FALSE, res |-> ParsedNone]

ParseText ==
    /\ mode = "fence" /\ ~fenceOut.done
    /\ fenceOut' = [done |-> TRUE, res |-> ParseResponseText(ResText(BodyText), fenceIn)]
    /\ UNCHANGED <<mode, runVars, dupIn, dupOut, normIn, normOut, normAgain, extractIn,
                   extractOut, fenceIn>>

NextFence == ParseText

SpecFence == InitFence /\ [][NextFence]_vars

----------------------------------------------------------------------------
(* Reading the history of a run *)

LogIdx == 1..Len(log)

\* the ids for which an event of one of the given kinds was recorded
IdsWith(ops) == {log[k].id : k \in {j \in LogIdx : log[j].op \in ops}}

\* the number of events of the given kinds
CountOf(ops) == Cardinality({k \in LogIdx : log[k].op \in ops})

\* the four fields that identify a transaction
ClaimKeys == {"date", "amount", "category", "description"}

\* the key of a dict under str() and lower(), a missing field being ''
KeyOf(d, f) == Lower(Str(IF f \in DOMAIN d THEN d[f] ELSE StrV(<<>>)))

SameKey(d, e) == \A f \in ClaimKeys : KeyOf(d, f) = KeyOf(e, f)

MatchesSnapshot(entry) ==
    \E k \in 1..Len(existing_data) : SameKey(entry, existing_data[k])

\* the for loop has run to its end (no exception left it)
LoopCompleted == pc \in {"notify", "done"} /\ emails # <<>> /\ idx > Len(emails)

\* right after candidate m was skipped the run is back at the head of the
\* loop, or, when m was the last candidate and nothing is staged, at its end
ContinuesAfter(m) ==
    \/ pc = "loop"
    \/ m = Len(emails) /\ Len(all_data_rows) = 1 /\ pc = "done" /\ CountOf({"append"}) = 0

\* the rows the stage events of the history account for, in order
StagedRows ==
    LET staged == SelectSeq(log, LAMBDA e : e.op = "stage") IN
    [k \in 1..Len(staged) |-> DataRow(staged[k].entry)]

----------------------------------------------------------------------------
(* C1 *)

\* every candidate's entry was checked and has the key of a snapshot record
AllCandidatesMatch ==
    /\ emails # <<>>
    /\ \A m \in 1..Len(emails) :
         \E k \in LogIdx : /\ log[k].op \in {"duplicate", "stage"}
                           /\ log[k].id = emails[m].id
                           /\ MatchesSnapshot(log[k].entry)

\* C1: a candidate whose normalised {date, amount, category, description}
\* matches a record of the snapshot is discarded (no row is staged for it)
\* and mark_email_processed is still called for it; when every candidate of
\* the run is such a match, mark_email_processed was called for every
\* message, duplicate_count is the number of candidates, nothing but the
\* header is in all_data_rows and no append was issued.
C1_DuplicatesDiscardedButMarked ==
    /\ \A k \in LogIdx :
         (log[k].op \in {"duplicate", "stage"} /\ MatchesSnapshot(log[k].entry))
            => /\ log[k].op = "duplicate"
               /\ \A j \in LogIdx : log[j].op = "stage" => log[j].id # log[k].id
               /\ (idx > log[k].id => log[k].id \in IdsWith({"mark"}))
    /\ (LoopCompleted /\ AllCandidatesMatch)
            => /\ IdsWith({"mark"}) = {emails[m].id : m \in 1..Len(emails)}
               /\ duplicate_count = Len(emails)
               /\ all_data_rows = <<header_row>>
               /\ CountOf({"append"}) = 0
               /\ pc = "done"

\* two candidates, both matching the existing record in another letter
\* case, both discarded and both labelled
C1_Witness ==
    /\ LoopCompleted /\ AllCandidatesMatch
    /\ Len(emails) = 2
    /\ duplicate_count = 2
    /\ handled = {1, 2}
    /\ \E k \in LogIdx : log[k].op = "duplicate" /\ log[k].entry.category = Food

----------------------------------------------------------------------------
(* C2 *)

UpperChar(c) ==
    IF \E k \in 1..26 : LowerChars[k] = c
    THEN UpperChars[CHOOSE k \in 1..26 : LowerChars[k] = c]
    ELSE c

\* the same dict with the letters of field f in upper / in lower case
CaseVariants(d, f) ==
    IF f \in DOMAIN d /\ d[f].t = "str"
    THEN {[d EXCEPT ![f] = StrV([k \in 1..Len(d[f].s) |-> UpperChar(d[f].s[k])])],
          [d EXCEPT ![f] = StrV([k \in 1..Len(d[f].s) |-> LowerChar(d[f].s[k])])]}
    ELSE {d}

\* C2: is_duplicate(candidate, existing) is true exactly when some existing
\* record agrees with the candidate on date, amount, category and
\* description, each value taken through str() (a missing field as '') and
\* compared without regard to letter case; so it is false on the empty list,
\* and changing the letter case of one key value of the candidate or of an
\* existing record does not change the result.
C2_DuplicateIffKeyMatch ==
    dupOut.done =>
        LET c == dupIn.new_entry
            E == dupIn.existing_entries
        IN /\ dupOut.value = (\E k \in 1..Len(E) : SameKey(c, E[k]))
           /\ (E = <<>> => ~dupOut.value)
           /\ \A f \in ClaimKeys : \A c2 \in CaseVariants(c, f) :
                 is_duplicate(c2, E) = dupOut.value
           /\ \A k \in 1..Len(E) : \A f \in ClaimKeys : \A e2 \in CaseVariants(E[k], f) :
                 is_duplicate(c, [E EXCEPT ![k] = e2]) = dupOut.value

\* a match found on the second existing record, across letter case, with a
\* field the existing record does not have
C2_Witness ==
    /\ dupOut.done /\ dupOut.value
    /\ Len(dupIn.existing_entries) = 2
    /\ ~SameKey(dupIn.new_entry, dupIn.existing_entries[1])
    /\ dupIn.new_entry.category = Food
    /\ dupIn.existing_entries[2].category = FOOD
    /\ "description" \in DOMAIN dupIn.new_entry
    /\ dupIn.new_entry.description = kopi

----------------------------------------------------------------------------
(* C3 *)

\* the number a float of the model stands for
FloatNum(v) == IF v.s = <<"-">> THEN 0 - v.n ELSE v.n

\* the amounts float() accepts, and the numbers they stand for
IsNumber(v) == v.t \in {"int", "float"} \/ v \in {StrV(<<"2">>), StrV(<<"-", "2">>)}

NumberOf(v) ==
    CASE v.t = "int"   -> v.n
      [] v.t = "float" -> FloatNum(v)
      [] v.t = "str"   -> IF v = StrV(<<"2">>) THEN 2 ELSE 0 - 2

Magnitude(k) == IF k < 0 THEN 0 - k ELSE k

IsExpense(obj) ==
    /\ "transaction_type" \in DOMAIN obj
    /\ obj["transaction_type"] = StrV(<<"e", "x", "p", "e", "n", "s", "e">>)

IsIncome(obj) ==
    /\ "transaction_type" \in DOMAIN obj
    /\ obj["transaction_type"] = StrV(<<"i", "n", "c", "o", "m", "e">>)

\* C3: when the classifier's object has a non-null numeric amount a, the
\* record's amount is the float -|a| if transaction_type is exactly
\* "expense" and +|a| otherwise (income, null, absent, any other tag),
\* whatever the sign of a; so a positive amount of an expense comes out
\* negative, the amount of an income is never negative, and the magnitude
\* does not change.
C3_AmountSignFollowsType ==
    (normOut.done /\ "amount" \in DOMAIN normIn /\ IsNumber(normIn["amount"])) =>
        LET a == NumberOf(normIn["amount"])
            out == normOut.res
        IN /\ out.ok
           /\ out.data["amount"].t = "float"
           /\ FloatNum(out.data["amount"]) =
                 IF IsExpense(normIn) THEN 0 - Magnitude(a) ELSE Magnitude(a)
           /\ out.data["amount"].n = Magnitude(a)
           /\ (IsExpense(normIn) /\ a > 0 => FloatNum(out.data["amount"]) < 0)
           /\ (IsIncome(normIn) => FloatNum(out.data["amount"]) >= 0)

\* an income reported with a negative amount comes out positive
C3_Witness ==
    /\ normOut.done
    /\ "amount" \in DOMAIN normIn /\ normIn["amount"] = IntV(0 - 2)
    /\ IsIncome(normIn)
    /\ normOut.res.ok
    /\ FloatNum(normOut.res.data["amount"]) = 2

----------------------------------------------------------------------------
(* C4 *)

\* the classifier's object behind the entry recorded at history position k:
\* the response of the classify event just before it
ObjectBehind(k) == log[k - 1].response.obj

MissingOrNull(obj, f) == f \notin DOMAIN obj \/ obj[f] = [t |-> "null", s |-> <<>>, n |-> 0]

\* C4: the record that is checked for duplicates and staged has no null
\* field: a missing or null date has become the processing date, a missing
\* or null category 'Lainnya', a missing or null description '', and a
\* missing or null amount 0.
C4_NoNullField ==
    /\ \A k \in LogIdx :
         log[k].op \in {"duplicate", "stage"} =>
            LET entry == log[k].entry
                obj == ObjectBehind(k)
            IN /\ \A f \in ClaimKeys : entry[f].t # "null"
               /\ (MissingOrNull(obj, "date") => entry.date = TODAY)
               /\ (MissingOrNull(obj, "category") => entry.category = LAINNYA)
               /\ (MissingOrNull(obj, "description") => entry.description = StrV(<<>>))
               /\ (MissingOrNull(obj, "amount") => entry.amount = IntV(0))
    /\ \A r \in 1..Len(all_data_rows) : \A c \in 1..Len(all_data_rows[r]) :
         all_data_rows[r][c].t # "null"

----------------------------------------------------------------------------
(* C5 *)

\* the response cannot be turned into a record: the call raised, the text is
\* not JSON, or the JSON value is not an object
NoRecord(response) == response.k \in {"raise", "invalid", "nonobject"}

\* C5: a message whose classifier response cannot be turned into a record
\* is skipped: mark_email_processed is not called for it and it is not
\* labelled, no entry of it is checked or staged, neither the staged rows
\* nor duplicate_count count it, and the loop goes on with the next
\* candidate (or, after the last one, to the commit).
C5_ClassifyFailureSkips ==
    /\ \A k \in LogIdx :
         (log[k].op = "classify" /\ NoRecord(log[k].response)) =>
            LET m == log[k].id IN
            /\ m \notin IdsWith({"mark", "duplicate", "stage"})
            /\ m \notin handled
            /\ (k = Len(log) => idx = m + 1 /\ ContinuesAfter(m))
            /\ (k < Len(log) /\ m < Len(emails)
                  => log[k + 1].op = "extract" /\ log[k + 1].id = emails[m + 1].id)
            /\ (k < Len(log) /\ m = Len(emails)
                  => log[k + 1].op \in {"append", "notify", "batch"})
    /\ pc \in {"loop", "notify", "done"} /\ emails # <<>> /\ idx > 0 =>
         /\ Len(all_data_rows) - 1 = CountOf({"stage"})
         /\ duplicate_count = CountOf({"duplicate"})
         /\ CountOf({"stage"}) + CountOf({"duplicate"})
              = Cardinality(IdsWith({"classify"}) \ {log[k].id : k \in
                    {j \in LogIdx : log[j].op = "classify" /\ ~log[j].ok}})

\* the first message's response is not JSON, the second message is staged and
\* appended
C5_Witness ==
    /\ pc = "done" /\ Len(emails) = 2
    /\ \E k \in LogIdx : log[k].op = "classify" /\ log[k].id = 1
                         /\ log[k].response.k = "invalid"
    /\ 1 \notin handled /\ 2 \in handled
    /\ Len(all_data_rows) = 2
    /\ \E k \in LogIdx : log[k].op = "append" /\ log[k].ok

----------------------------------------------------------------------------
(* C6 *)

RECURSIVE NoTextAnywhere(_)
\* no part of the tree carries body data the extractor would decode: a
\* payload without parts has no data, and under a parts list no text/plain
\* or text/html part has data and every container part is empty in turn
NoTextAnywhere(p) ==
    IF p.hasParts
    THEN \A k \in 1..Len(p.parts) :
            LET part == p.parts[k] IN
            /\ part.mimeType \in {"text/plain", "text/html"} => part.data.k = "empty"
            /\ part.hasParts => NoTextAnywhere(part)
    ELSE p.data.k = "empty"

\* C6: for a payload with no decodable text anywhere extract_email_body
\* returns None (no exception), and the run skips the message: the
\* classifier is not called for it, no entry of it is checked or staged,
\* mark_email_processed is not called, and the message is still unread, so
\* the next run's query returns it again.
C6_EmptyExtractionSkips ==
    \A m \in 1..Len(emails) :
        NoTextAnywhere(emails[m].payload) =>
            /\ extract_email_body(emails[m].payload) = [k |-> "none", txt |-> <<>>]
            /\ emails[m].id \notin IdsWith({"classify", "duplicate", "stage", "mark"})
            /\ emails[m].id \notin handled
            /\ \E j \in 1..Len(Unread) : Unread[j].id = emails[m].id
            /\ (idx > m =>
                  \E k \in LogIdx : /\ log[k].op = "extract" /\ log[k].id = emails[m].id
                                    /\ log[k].body.k = "none"
                                    /\ (k = Len(log) => idx = m + 1 /\ ContinuesAfter(m)))

\* a message with only non-text parts is skipped, and the next message is
\* processed and labelled
C6_Witness ==
    /\ pc = "done" /\ Len(emails) = 2
    /\ emails[1].payload = PayloadEmptyNested
    /\ NoTextAnywhere(emails[1].payload)
    /\ handled = {2}
    /\ \E k \in LogIdx : log[k].op = "extract" /\ log[k].id = 1 /\ log[k].body.k = "none"

----------------------------------------------------------------------------
(* C7 *)

\* rows holds the rows a and b at two different positions, a first
HoldsBoth(rows, a, b) ==
    \E p \in 1..Len(rows) : \E q \in 1..Len(rows) : p < q /\ rows[p] = a /\ rows[q] = b

\* every staged row went out in an append call
StagedRowsSent ==
    CountOf({"stage"}) > 0 =>
        \E k \in LogIdx : /\ log[k].op = "append"
                          /\ log[k].rows \in {StagedRows, <<header_row>> \o StagedRows}

\* C7: a decoding error in one message's extraction fails only that
\* message: when the run has ended, every candidate was still visited and
\* the rows staged before and after that message were sent in the append.
C7_DecodeErrorFailsOnlyThatMessage ==
    (pc = "done" /\ \E k \in LogIdx : log[k].op = "extract" /\ log[k].body.k = "raise")
        => /\ \A m \in 1..Len(emails) : emails[m].id \in IdsWith({"extract"})
           /\ StagedRowsSent

----------------------------------------------------------------------------
(* C8 *)

AppendFailed == \E k \in LogIdx : log[k].op = "append" /\ ~log[k].ok

\* C8: when the batched append fails, the messages already labelled stay
\* labelled, and the caller of the run gets an outcome other than the one
\* it gets from a run without candidates (line 448), from a run whose
\* classifications failed (line 535) and from a successful run (line 533),
\* which all hand it None.
C8_CommitFailureSurfaced ==
    (pc = "done" /\ AppendFailed)
        => /\ \A k \in LogIdx : (log[k].op = "mark" /\ log[k].ok) => log[k].id \in handled
           /\ returned # RetNone

----------------------------------------------------------------------------
(* C9 *)

\* C9: the snapshot is read at most once in a run, before anything is done
\* with a candidate, and existing_data stays what that read returned; so of
\* two candidates with the same key fields and no matching snapshot record
\* both are staged, both rows are in the append call that is issued once
\* the loop has completed, and when that call succeeds both are in the sheet.
C9_SnapshotFixedTwinsBothStaged ==
    /\ CountOf({"read"}) <= 1
    /\ \A k \in LogIdx :
         log[k].op = "read" =>
            /\ existing_data = log[k].snapshot
            /\ \A j \in 1..(k - 1) :
                 log[j].op \notin {"extract", "classify", "duplicate", "stage", "mark", "append"}
    /\ \A k \in LogIdx :
         log[k].op \in {"extract", "classify", "duplicate", "stage", "mark", "append"}
            => \E j \in 1..(k - 1) : log[j].op = "read"
    /\ \A j \in LogIdx : \A k \in LogIdx :
         (/\ j < k
          /\ log[j].op \in {"duplicate", "stage"}
          /\ log[k].op \in {"duplicate", "stage"}
          /\ SameKey(log[j].entry, log[k].entry)
          /\ ~MatchesSnapshot(log[k].entry))
            => LET a == DataRow(log[j].entry)
                   b == DataRow(log[k].entry)
               IN /\ log[j].op = "stage" /\ log[k].op = "stage"
                  /\ HoldsBoth(all_data_rows, a, b)
                  /\ (LoopCompleted => CountOf({"append"}) = 1)
                  /\ \A c \in LogIdx :
                       log[c].op = "append" =>
                          /\ HoldsBoth(log[c].rows, a, b)
                          /\ (log[c].ok => HoldsBoth(sheet, a, b))

\* two candidates classified alike, not in the sheet that already holds a
\* record: both staged, both appended
C9_Witness ==
    /\ pc = "done"
    /\ Len(existing_data) > 0
    /\ \E j \in LogIdx : \E k \in LogIdx :
         /\ j < k
         /\ log[j].op = "stage" /\ log[k].op = "stage"
         /\ log[j].entry = log[k].entry
         /\ HoldsBoth(sheet, DataRow(log[j].entry), DataRow(log[k].entry))

----------------------------------------------------------------------------
(* C10 *)

\* C10: a run issues at most one append call; the call comes after every
\* candidate has been visited and nothing but notifications follows it; it
\* carries every staged row, in order (after the header row when the
\* snapshot was empty); a completed run issues it exactly when it staged a
\* row, and no append is issued while nothing is staged.
C10_OneBatchedAppend ==
    /\ CountOf({"append"}) <= 1
    /\ \A k \in LogIdx :
         log[k].op = "append" =>
            /\ idx > Len(emails)
            /\ \A m \in 1..Len(emails) : emails[m].id \in IdsWith({"extract"})
            /\ \A j \in (k + 1)..Len(log) : log[j].op \in {"notify", "batch"}
            /\ StagedRows # <<>>
            /\ StagedRows = Tail(all_data_rows)
            /\ log[k].rows = IF existing_data = <<>>
                             THEN <<header_row>> \o StagedRows
                             ELSE StagedRows
    /\ (LoopCompleted => (CountOf({"append"}) = 1 <=> CountOf({"stage"}) > 0))
    /\ (CountOf({"stage"}) = 0 => CountOf({"append"}) = 0)

\* two staged rows leave in one call, after the existing rows
C10_Witness ==
    /\ pc = "done"
    /\ CountOf({"stage"}) = 2
    /\ existing_data # <<>>
    /\ \E k \in LogIdx : log[k].op = "append" /\ log[k].ok /\ Len(log[k].rows) = 2
    /\ Len(sheet) >= 4

----------------------------------------------------------------------------
(* C11 *)

\* the number of rows the run has staged (process_gmail_account) or
\* appended (process_emails)
StagedCount == IF HttpRun THEN processed_count ELSE Len(all_data_rows) - 1

\* the same number, from the history
StagedInHistory ==
    IF HttpRun THEN Cardinality({k \in LogIdx : log[k].op = "append" /\ log[k].ok})
    ELSE CountOf({"stage"})

\* the entries of the per-transaction notifications, in the order of the calls
NotifiedEntries ==
    LET calls == SelectSeq(log, LAMBDA e : e.op = "notify") IN
    [k \in 1..Len(calls) |-> calls[k].entry]

\* the records of the staged rows, in the order of staging
StagedEntries ==
    LET staged == SelectSeq(log, LAMBDA e : e.op = "stage") IN
    [k \in 1..Len(staged) |-> staged[k].entry]

Configured == TELEGRAM_ENABLED /\ TELEGRAM_BOT_TOKEN /\ TELEGRAM_CHAT_IDS > 0

----------------------------------------------------------------------------
(* C12 *)

\* the counts a caller can read off what the run returned: the returned
\* value itself, or the body of the HTTP response
ReturnedCounts == IF HttpRun THEN returned.body ELSE returned

\* the rows of the run that are in the store
CommittedCount ==
    IF HttpRun THEN processed_count
    ELSE IF \E k \in LogIdx : log[k].op = "append" /\ log[k].ok
         THEN Len(all_data_rows) - 1
         ELSE 0

SetupSucceeded == \E k \in LogIdx : log[k].op = "setup" /\ log[k].ok

\* C12: a run that got past its setup and has ended has handed its caller
\* the counts processed (the rows staged and committed) and
\* duplicates_skipped (the candidates discarded as duplicates).
C12_ReturnsAggregateCounts ==
    (pc = "done" /\ SetupSucceeded) =>
        /\ {"processed", "duplicates_skipped"} \subseteq DOMAIN ReturnedCounts
        /\ ReturnedCounts.processed = CommittedCount
        /\ ReturnedCounts.duplicates_skipped = duplicate_count

----------------------------------------------------------------------------
(* C13 *)

\* the candidate fetch has been made and returned no message
NoCandidates == emails = <<>> /\ \E k \in LogIdx : log[k].op = "fetch"

\* the run consisted of its setup and the fetch, and changed nothing
OnlySetupAndFetch ==
    /\ Len(log) = 2
    /\ log[1].op = "setup" /\ log[1].ok
    /\ log[2].op = "fetch"
    /\ handled = {}
    /\ existing_data = <<>>
    /\ all_data_rows = <<>>
    /\ processed_transactions = <<>>
    /\ processed_count = 0
    /\ duplicate_count = 0
    /\ email_body = [k |-> "none", txt |-> <<>>]
    /\ parsed_data = [ok |-> FALSE, data |-> <<>>]

\* the step that fetches and gets nothing ends the run and leaves the mail
\* and the store as they were
EmptyFetchStep ==
    (pc = "fetch" /\ emails' = <<>>)
        => /\ pc' = "done"
           /\ sheet' = sheet
           /\ handled' = handled
           /\ mailbox' = mailbox
           /\ Len(log') = Len(log) + 1

\* C13: when the candidate fetch returns no message (none is unread, or the
\* mail backend failed inside get_emails) the run ends at once: nothing was
\* processed (process_emails answers 200 with processed = 0,
\* process_gmail_account returns), the snapshot was not read, the extractor
\* and the classifier were not called, no message was marked, nothing was
\* appended and no notification was sent.
C13_NoCandidatesNoEffect ==
    /\ [](NoCandidates =>
            /\ pc = "done"
            /\ OnlySetupAndFetch
            /\ CountOf({"read", "extract", "classify", "duplicate", "stage",
                        "mark", "append", "notify", "batch"}) = 0
            /\ (HttpRun => /\ returned.statusCode = 200
                           /\ returned.body.processed = 0)
            /\ (GmailRun => returned = [t |-> "null", s |-> <<>>, n |-> 0]))
    /\ [][EmptyFetchStep]_vars

\* nothing is unread although the sheet holds records: the run is over
\* after the fetch
C13_Witness ==
    /\ NoCandidates /\ GmailRun
    /\ pc = "done"
    /\ log[2].ok
    /\ mailbox = <<>>
    /\ Len(sheet) = 3

----------------------------------------------------------------------------
(* C14 *)

\* the setup of the run has been tried and did not succeed
SetupFailed == \E k \in LogIdx : log[k].op = "setup" /\ ~log[k].ok

\* the setup step, when it fails, ends the run and leaves mail and store
\* as they were
FailedSetupStep ==
    (pc = "start" /\ pc' # "fetch")
        => /\ pc' = "done"
           /\ sheet' = sheet
           /\ handled' = handled
           /\ mailbox' = mailbox
           /\ emails' = emails

----------------------------------------------------------------------------
(* C15 *)

HasData(part) == part.data.k # "empty"

\* the positions of the parts of the given type that carry body data
WithData(parts, mime) ==
    {k \in 1..Len(parts) : parts[k].mimeType = mime /\ HasData(parts[k])}

Least(S) == CHOOSE k \in S : \A j \in S : k <= j

\* C15: when the parts of the payload hold a plain-text part with data and
\* an HTML part with data, the result is the decoded body of the (first)
\* plain-text part, whatever the order of the parts.
C15_PlainPreferredOverHtml ==
    (extractOut.done /\ extractIn.hasParts) =>
        LET parts == extractIn.parts
            plain == WithData(parts, "text/plain")
            html == WithData(parts, "text/html")
        IN (plain # {} /\ html # {})
              => extractOut.res = DecodePlain(parts[Least(plain)].data)

----------------------------------------------------------------------------
(* C16 *)

\* a part that is neither plain text nor HTML and has sub-parts
IsContainer(part) == part.mimeType \notin {"text/plain", "text/html"} /\ part.hasParts

RECURSIVE LeafTexts(_)
\* the decoded bodies of the text parts anywhere below a part
LeafTexts(part) ==
    IF part.hasParts
    THEN UNION {LeafTexts(part.parts[k]) : k \in 1..Len(part.parts)}
    ELSE IF part.mimeType = "text/plain" /\ part.data.k = "b64"
         THEN {part.data.txt}
    ELSE IF part.mimeType = "text/html" /\ part.data.k = "b64"
         THEN {HTMLTextExtractor(part.data.txt)}
    ELSE {}

\* the search passes over the part: a text part without data, a part that
\* is no text and has no sub-parts, or a container in which no text is found
PassedOver(part) ==
    \/ part.mimeType \in {"text/plain", "text/html"} /\ part.data.k = "empty"
    \/ part.mimeType \notin {"text/plain", "text/html"} /\ ~part.hasParts
    \/ IsContainer(part) /\ extract_email_body(part).k # "raise"
                         /\ ~Truthy(extract_email_body(part))

\* the payload with the parts after position k only
Following(p, k) == [p EXCEPT !.parts = SubSeq(p.parts, k + 1, Len(p.parts))]

\* C16: when the search reaches a part that is neither plain text nor HTML
\* and has sub-parts, it looks into the sub-parts: a non-empty text found
\* there is the result (it is the body of a text part below that part);
\* when nothing is found there the result is what the search gives for the
\* following sibling parts, and None when every part is passed over.
C16_RecursesAndContinues ==
    (extractOut.done /\ extractIn.hasParts) =>
        LET parts == extractIn.parts
            res == extractOut.res
        IN /\ \A k \in 1..Len(parts) :
                (IsContainer(parts[k]) /\ \A j \in 1..(k - 1) : PassedOver(parts[j]))
                   => LET below == extract_email_body(parts[k]) IN
                      /\ (Truthy(below) => /\ res = below
                                           /\ res.txt \in LeafTexts(parts[k]))
                      /\ (PassedOver(parts[k])
                            => res = extract_email_body(Following(extractIn, k)))
           /\ ((\A k \in 1..Len(parts) : PassedOver(parts[k]))
                 => res = [k |-> "none", txt |-> <<>>])

\* the first container holds an image only, the second holds the text two
\* levels down
C16_Witness ==
    /\ extractOut.done
    /\ extractIn.hasParts /\ Len(extractIn.parts) = 2
    /\ extractIn.parts[1] = BoxEmpty
    /\ extractIn.parts[2] = BoxDeep
    /\ extractOut.res = [k |-> "text", txt |-> <<Txt("Gaji 9000")>>]

----------------------------------------------------------------------------
(* C17 *)

\* the HTML content of a payload whose only content is HTML: one HTML part
\* with data, or HTML body data on the payload itself
OnlyHtml(p) ==
    \/ ~p.hasParts /\ p.mimeType = "text/html" /\ p.data.k = "b64"
    \/ /\ p.hasParts /\ Len(p.parts) = 1
       /\ p.parts[1].mimeType = "text/html" /\ p.parts[1].data.k = "b64"

HtmlOf(p) == IF p.hasParts THEN p.parts[1].data.txt ELSE p.data.txt

\* the text runs of a content that a tag follows, in order
TextBeforeLastTag(content) ==
    LET tags == {k \in 1..Len(content) : content[k].tag}
        last == IF tags = {} THEN 0 ELSE CHOOSE k \in tags : \A j \in tags : j <= k
    IN SelectSeq(SubSeq(content, 1, last), LAMBDA tok : ~tok.tag)

\* C17: for a payload whose only content is HTML (in a part, or directly
\* on the payload) the result is a string that holds no markup tag and
\* holds, in order and separated by one space, every text run that stands
\* between tags; for <p>Beli kopi 20000</p> it is "Beli kopi 20000".
C17_HtmlTagsStripped ==
    (extractOut.done /\ OnlyHtml(extractIn)) =>
        LET content == HtmlOf(extractIn)
            res == extractOut.res
            kept == TextBeforeLastTag(content)
        IN /\ res.k = "text"
           /\ \A i \in 1..Len(res.txt) : ~res.txt[i].tag
           /\ Len(res.txt) >= 2 * Len(kept) - 1
           /\ \A i \in 1..Len(kept) : res.txt[2 * i - 1] = kept[i]
           /\ \A i \in 1..Len(res.txt) : (i % 2 = 0) => res.txt[i] = Txt(" ")
           /\ (content = HtmlDoc => res.txt = <<Txt("Beli kopi 20000")>>)

\* markup around and inside the sentence: the three text runs are kept
C17_Witness ==
    /\ extractOut.done
    /\ extractIn.hasParts /\ OnlyHtml(extractIn)
    /\ HtmlOf(extractIn) = HtmlRich
    /\ extractOut.res.txt = <<Txt("Beli"), Txt(" "), Txt("kopi"), Txt(" "), Txt("20000")>>

----------------------------------------------------------------------------
(* C18 *)

\* C18: when a record that came out of the normalisation is normalised
\* again (with the transaction_type it has) the result is the same record:
\* the amount keeps its value, its sign and its type, whether the first
\* amount was an int, a float or a numeric string of either sign, null or
\* absent, and whatever transaction_type is.
C18_NormalisationIdempotent ==
    normAgain.done =>
        /\ normOut.done /\ normOut.res.ok
        /\ normAgain.res.ok
        /\ normAgain.res = normOut.res
        /\ DOMAIN normAgain.res.data = DOMAIN normIn
        /\ ("amount" \in DOMAIN normIn
              => normAgain.res.data["amount"] = normOut.res.data["amount"])

\* an expense reported as 2 is -2.0 after the first and after the second
\* normalisation
C18_Witness ==
    /\ normAgain.done
    /\ IsExpense(normIn)
    /\ "amount" \in DOMAIN normIn /\ normIn["amount"] = IntV(2)
    /\ normOut.res.data["amount"] = FloatV(<<"-">>, 2)
    /\ normAgain.res.data["amount"] = FloatV(<<"-">>, 2)

----------------------------------------------------------------------------
(* C19 *)

\* the row has the key fields of a row that was in the sheet before it
RepeatsEarlierRow(row, at) ==
    \E q \in 1..(at - 1) : SameKey(RowEntry(sheet[q]), RowEntry(row))

\* C19: in a run of process_emails the rows of the store are read before a
\* row is appended, and no row is appended whose date, amount, category and
\* description match a row already in the store.
C19_HttpRunDeduplicates ==
    HttpRun =>
        \A k \in LogIdx :
            (log[k].op = "append" /\ log[k].ok) =>
                /\ \E j \in 1..(k - 1) : log[j].op = "read"
                /\ ~RepeatsEarlierRow(log[k].rows[1], log[k].at)

----------------------------------------------------------------------------
(* C20 *)

RECURSIVE RowsOf(_)
\* the rows of a sequence of append events, in order
RowsOf(events) ==
    IF events = <<>> THEN <<>> ELSE events[1].rows \o RowsOf(Tail(events))

\* the rows the successful append calls of the history carried
RowsAppended == RowsOf(SelectSeq(log, LAMBDA e : e.op = "append" /\ e.ok))

\* the ids whose modify call succeeded
IdsMarked == {log[k].id : k \in {j \in LogIdx : log[j].op = "mark" /\ log[j].ok}}

\* the step in which the notifier is called
NotifierStep ==
    \/ GmailRun /\ pc = "notify"
    \/ HttpRun /\ pc = "loop" /\ idx > Len(emails)

\* that step ends the run and leaves the store and the mail as they were
NotifierStepKeepsEffects ==
    NotifierStep => /\ pc' = "done"
                    /\ sheet' = sheet
                    /\ handled' = handled
                    /\ mailbox' = mailbox

\* C20: with the notifier unconfigured (the flag off, no token or no chat
\* id) every call of send_telegram_notification and of
\* send_batch_notification issues no request and returns False, and the
\* run ends as it does otherwise (process_emails answers 200 with its
\* count); whatever the configuration, the rows in the sheet and the
\* messages marked are those of the successful append and modify calls of
\* the run, and the step that calls the notifier changes neither.
C20_UnconfiguredNotifierIsSilent ==
    /\ [](\A k \in LogIdx :
            (log[k].op \in {"notify", "batch"} /\ ~Configured)
                => log[k].sent = 0 /\ ~log[k].ok)
    /\ [](sheet = <<header_row, RowA>> \o RowsAppended /\ handled = IdsMarked)
    /\ []((pc = "done" /\ CountOf({"notify", "batch"}) > 0) =>
            /\ LoopCompleted
            /\ (GmailRun => returned = [t |-> "null", s |-> <<>>, n |-> 0])
            /\ (HttpRun => /\ returned.statusCode = 200
                           /\ returned.body.processed = processed_count))
    /\ [][NotifierStepKeepsEffects]_vars

\* the flag is off: two rows appended, two messages marked, two calls of
\* the notifier that sent nothing
C20_Witness ==
    /\ pc = "done" /\ GmailRun
    /\ TELEGRAM_AVAILABLE /\ ~TELEGRAM_ENABLED
    /\ CountOf({"notify"}) = 2
    /\ \A k \in LogIdx : log[k].op = "notify" => log[k].sent = 0 /\ ~log[k].ok
    /\ Len(RowsAppended) = 2
    /\ Cardinality(handled) >= 2

----------------------------------------------------------------------------
(* C21 *)

\* the place of a message in the fetched list
PosOf(id) == CHOOSE m \in 1..Len(emails) : emails[m].id = id

\* the place of a step among the steps of one candidate
StepRank(op) ==
    CASE op = "extract" -> 1
      [] op = "classify" -> 2
      [] op \in {"duplicate", "stage"} -> 3
      [] op = "mark" -> 4
      [] OTHER -> 5

\* no step of a candidate comes after a step of a later candidate, and the
\* steps of one candidate come in the order of the loop body, each once
OneAtATimeInFetchOrder ==
    \A j \in LogIdx : \A k \in LogIdx :
        (j < k /\ log[j].id # 0 /\ log[k].id # 0) =>
            \/ PosOf(log[j].id) < PosOf(log[k].id)
            \/ /\ log[j].id = log[k].id
               /\ StepRank(log[j].op) < StepRank(log[k].op)

\* the append carries the staged rows in the order of their candidates
AppendInFetchOrder ==
    \A k \in LogIdx :
        log[k].op = "append" =>
            /\ log[k].rows \in {StagedRows, <<header_row>> \o StagedRows}
            /\ \A i \in LogIdx : \A j \in LogIdx :
                 (i < j /\ log[i].op = "stage" /\ log[j].op = "stage")
                     => PosOf(log[i].id) < PosOf(log[j].id)

\* the number of times the loop body was entered for candidate m
Visits(m) ==
    Cardinality({k \in LogIdx : log[k].op = "extract" /\ log[k].id = emails[m].id})

EveryCandidateVisitedOnce == \A m \in 1..Len(emails) : Visits(m) = 1

\* C21: within one run the candidates are processed strictly one at a time
\* in fetch order (every step of candidate i is over before a step of
\* candidate i+1 starts), the staged rows are in the append in fetch order,
\* every candidate has been visited exactly once when the run is over, and
\* the run reaches its end.
C21_SequentialInFetchOrder ==
    /\ [](OneAtATimeInFetchOrder /\ AppendInFetchOrder)
    /\ [](pc = "done" => EveryCandidateVisitedOnce)
    /\ <>(pc = "done")

----------------------------------------------------------------------------
(* C22 *)

\* the text opens with a fence tagged json, or with a fence and no tag
StartsWithTaggedFence(text) == Len(text) >= 2 /\ text[1] = Fence /\ text[2] = JsonWord

StartsWithFence(text) == Len(text) >= 1 /\ text[1] = Fence

\* what follows the opening fence and its tag
AfterOpening(text) ==
    IF StartsWithTaggedFence(text) THEN SubSeq(text, 3, Len(text)) ELSE Tail(text)

\* the fenced forms of the text of one JSON object
Fenced(obj) ==
    {<<Fence, JsonWord, JsonText(obj), Fence>>,
     <<Fence, JsonText(obj), Fence>>,
     <<Fence, Blank, JsonText(obj), Fence>>,
     <<Fence, JsonText(obj), Blank, Fence>>}

\* C22: for a response that starts with a code fence, tagged json or
\* untagged, and has a closing fence after it, the record is the one
\* parsed from the text between the opening fence and the next fence; a
\* response without a fence is parsed as it is; a fenced response gives the
\* record the unfenced text of the same JSON object gives.
C22_LeadingFenceStripped ==
    fenceOut.done =>
        /\ (StartsWithFence(fenceIn) /\ HasFence(AfterOpening(fenceIn)))
              => fenceOut.res =
                    parse_email_with_gemini(ResText(BodyText),
                                            json_loads(BeforeFence(AfterOpening(fenceIn))))
        /\ ~HasFence(fenceIn)
              => fenceOut.res = parse_email_with_gemini(ResText(BodyText), json_loads(fenceIn))
        /\ \A obj \in {ObjA, ObjB} :
              fenceIn \in Fenced(obj)
                  => fenceOut.res = ParseResponseText(ResText(BodyText), <<JsonText(obj)>>)

----------------------------------------------------------------------------
(* C23 *)

\* the body is JSON with a message whose data decodes to a JSON object
\* with a truthy historyId
ValidNotification(req) ==
    /\ req.k = "json"
    /\ req.v.t = "dict" /\ "message" \in req.v.has
    /\ LET message == req.v.f["message"] IN
         /\ message.t = "dict" /\ "data" \in message.has
         /\ message.f["data"].enc.k = "value"
         /\ LET gmail_data == message.f["data"].enc.v IN
              /\ gmail_data.t = "dict" /\ "historyId" \in gmail_data.has
              /\ gmail_data.f["historyId"].truthy

PipelineRan == CountOf({"setup"}) > 0

\* C23: the webhook POST runs the pipeline only for a body that is JSON
\* with a message whose data base64-decodes to a JSON object with a truthy
\* historyId, and then answers with the pipeline's status code and body;
\* for every other body (not JSON, no message, no data, undecodable data,
\* no historyId) it answers 200 and the pipeline has not run.
C23_WebhookTriggersOnHistoryId ==
    mode = "hook" =>
        /\ PipelineRan => ValidNotification(request)
        /\ (pc = "done" /\ ValidNotification(request)) =>
              /\ PipelineRan
              /\ returned \notin {HookNoProcessing, HookFailed}
        /\ (pc = "done" /\ ~ValidNotification(request)) =>
              /\ returned.statusCode = 200
              /\ ~PipelineRan

----------------------------------------------------------------------------
(* C24 *)

\* the row staged for message id is in the sheet
RowRecorded(id) ==
    \E j \in LogIdx : /\ log[j].op = "stage" /\ log[j].id = id
                      /\ \E r \in 1..Len(sheet) : sheet[r] = DataRow(log[j].entry)

\* message id was found to be a duplicate of a snapshot row
WasDuplicate(id) ==
    \E j \in LogIdx : log[j].op = "duplicate" /\ log[j].id = id /\ MatchesSnapshot(log[j].entry)

\* C24: when a run of process_gmail_account is over, however it ended,
\* every message it marked handled was a duplicate of a snapshot row or
\* has its row in the sheet.
C24_MarkedImpliesRecorded ==
    (GmailRun /\ pc = "done") =>
        \A k \in LogIdx :
            (log[k].op = "mark" /\ log[k].ok) =>
                WasDuplicate(log[k].id) \/ RowRecorded(log[k].id)

----------------------------------------------------------------------------
(* C25 *)

\* C25: a notification is sent only for a row that was appended: every
\* per-transaction notification is for an entry whose row is in the sheet,
\* and a run whose batched append failed calls neither
\* send_telegram_notification nor send_batch_notification.
C25_NotifyOnlyAppended ==
    GmailRun =>
        /\ \A k \in LogIdx :
              log[k].op = "notify" =>
                  \E r \in 1..Len(sheet) : sheet[r] = DataRow(log[k].entry)
        /\ AppendFailed => CountOf({"notify", "batch"}) = 0

----------------------------------------------------------------------------
(* C26 *)

\* the cells of a row that hold the key fields
KeyCells(row) == SubSeq(row, 1, Len(key_fields))

\* a run appended the row of this entry and the sheet still holds it
RowWrittenEarlier(entry) ==
    \E r \in 1..Len(sheet) :
        Len(sheet[r]) >= Len(key_fields) /\ KeyCells(sheet[r]) = KeyCells(DataRow(entry))

SnapshotReadOk == \E k \in LogIdx : log[k].op = "read" /\ log[k].ok

\* C26: a row that one run staged and appended is, once a later run has
\* read it back, found to be a duplicate of a candidate with the same
\* classification: when the duplicate check has been made for an entry
\* with a normalised (float) amount whose row an earlier run wrote to the
\* sheet, and the snapshot was read, the candidate was counted as a
\* duplicate.
C26_AppendedRowIsDuplicateLater ==
    (mode = "runs" /\ pc = "mark" /\ SnapshotReadOk
        /\ log[Len(log)].entry.amount.t = "float"
        /\ RowWrittenEarlier(log[Len(log)].entry))
            => log[Len(log)].op = "duplicate"

----------------------------------------------------------------------------
(* C27 *)

\* in this step rows were appended to a sheet that held rows already, and
\* the header row is not among them
NoHeaderIntoNonEmptySheet ==
    (GmailRun /\ sheet # <<>> /\ sheet' # sheet) =>
        \A r \in (Len(sheet) + 1)..Len(sheet') : sheet'[r] # header_row

\* C27: over any sequence of runs, process_gmail_account writes the header
\* row only into a sheet that holds no rows at all; a sheet that has rows
\* (a header row, with or without data rows under it) never receives the
\* header row again.
C27_HeaderOnlyIntoEmptySheet == [][NoHeaderIntoNonEmptySheet]_vars

----------------------------------------------------------------------------
(* C28 *)

SnapshotReadFailed == \E k \in LogIdx : log[k].op = "read" /\ ~log[k].ok

\* the records of the rows the sheet held before the last rows were added
RecordsBefore(rows) ==
    get_existing_data(ValuesGet(SubSeq(sheet, 1, Len(sheet) - Len(rows)), "automatic"), TRUE)

\* C28: when the read of the snapshot failed with a backend error, the run
\* appends no row whose key fields match a row the sheet already holds.
C28_FailedReadAppendsNoDuplicate ==
    (GmailRun /\ SnapshotReadFailed) =>
        \A k \in LogIdx :
            (log[k].op = "append" /\ log[k].ok) =>
                \A j \in LogIdx :
                    log[j].op = "stage" =>
                        ~is_duplicate(log[j].entry, RecordsBefore(log[k].rows))

----------------------------------------------------------------------------
(* C29 *)

OwnAppendOk(k) == log[k].op = "append" /\ log[k].ok

OwnAppendFailed(k) == log[k].op = "append" /\ ~log[k].ok

\* a message is marked read only after its own row was appended
MarkedAfterOwnAppend ==
    \A k \in LogIdx :
        log[k].op = "mark" =>
            \E j \in 1..(k - 1) : OwnAppendOk(j) /\ log[j].id = log[k].id

\* every append call carries one row, and no message has two calls
OneAppendCallPerMessage ==
    \A k \in LogIdx :
        log[k].op = "append" =>
            /\ Len(log[k].rows) = 1
            /\ \A j \in LogIdx :
                   (log[j].op = "append" /\ log[j].id = log[k].id) => j = k

\* a message whose append failed is still unread, so the next fetch returns it
FailedAppendStaysUnread ==
    \A k \in LogIdx :
        OwnAppendFailed(k) =>
            /\ log[k].id \notin handled
            /\ \E n \in 1..Len(Unread) : Unread[n].id = log[k].id

\* the count is the number of appends that succeeded
CountsOnlyAppended ==
    processed_count = Cardinality({k \in LogIdx : OwnAppendOk(k)})

\* C29: in process_emails a message is marked read only after the append of
\* its own row succeeded, rows are appended one call per message, and a
\* message whose append failed stays unread and is not counted, so the next
\* run fetches it again.
C29_HttpMarksAfterOwnAppend ==
    (mode = "http") =>
        /\ MarkedAfterOwnAppend
        /\ OneAppendCallPerMessage
        /\ FailedAppendStaysUnread
        /\ CountsOnlyAppended

C29_Witness ==
    /\ mode = "http" /\ pc = "done"
    /\ \E k \in LogIdx : OwnAppendFailed(k)
    /\ \E k \in LogIdx : log[k].op = "mark" /\ log[k].ok
    /\ processed_count = 1

----------------------------------------------------------------------------
(* C30 *)

\* the number of events of the given kinds the history holds for a message
EventsOf(id, ops) ==
    Cardinality({k \in LogIdx : log[k].op \in ops /\ log[k].id = id})

\* candidate m was skipped: no check, no row, no mark request
OutcomeSkipped(m) ==
    EventsOf(emails[m].id, {"duplicate", "stage", "mark"}) = 0

\* candidate m was discarded as a duplicate: one mark request, no row
OutcomeDuplicate(m) ==
    /\ EventsOf(emails[m].id, {"duplicate"}) = 1
    /\ EventsOf(emails[m].id, {"stage"}) = 0
    /\ EventsOf(emails[m].id, {"mark"}) = 1

\* candidate m was staged: one mark request, one row
OutcomeStaged(m) ==
    /\ EventsOf(emails[m].id, {"stage"}) = 1
    /\ EventsOf(emails[m].id, {"duplicate"}) = 0
    /\ EventsOf(emails[m].id, {"mark"}) = 1

SkippedCandidates == {m \in 1..Len(emails) : OutcomeSkipped(m)}

DuplicateCandidates == {m \in 1..Len(emails) : OutcomeDuplicate(m)}

StagedCandidates == {m \in 1..Len(emails) : OutcomeStaged(m)}

OneOutcomePerCandidate ==
    \A m \in 1..Len(emails) :
        OutcomeSkipped(m) \/ OutcomeDuplicate(m) \/ OutcomeStaged(m)

OutcomeCountsAddUp ==
    /\ Len(all_data_rows) - 1 = Cardinality(StagedCandidates)
    /\ all_data_rows = <<header_row>> \o StagedRows
    /\ duplicate_count = Cardinality(DuplicateCandidates)
    /\ (Len(all_data_rows) - 1) + duplicate_count + Cardinality(SkippedCandidates)
           = Len(emails)
    /\ CountOf({"mark"}) = (Len(all_data_rows) - 1) + duplicate_count

MarkedAtMostOnce ==
    \A m \in 1..Len(emails) : EventsOf(emails[m].id, {"mark"}) <= 1

\* C30: in every run of process_gmail_account that completes its loop each
\* candidate ends as exactly one of skipped (no mark request, no row),
\* duplicate (mark requested, no row) or staged (mark requested, one row);
\* staged + duplicates + skipped is the number of candidates, the number of
\* mark requests is staged + duplicates, and no message has two mark requests.
C30_ThreeOutcomes ==
    GmailRun =>
        /\ MarkedAtMostOnce
        /\ LoopCompleted => (OneOutcomePerCandidate /\ OutcomeCountsAddUp)

C30_Witness ==
    /\ GmailRun /\ LoopCompleted
    /\ \E m \in 1..Len(emails) : OutcomeDuplicate(m)
    /\ \E m \in 1..Len(emails) : OutcomeStaged(m)

====
